---------------------------- MODULE Spec2Model ----------------------------
(***************************************************************************)
(* Citation verification pipeline of citecheck (app/api/verify/route.ts,   *)
(* its streaming variant and the dashboard client).                        *)
(*                                                                         *)
(* Strings are sequences of one-character strings.  Scores are exact       *)
(* rationals [n, d] in lowest terms (the code uses IEEE doubles; the       *)
(* comparisons the verdict depends on are modelled on the exact values).   *)
(***************************************************************************)
EXTENDS Integers, Sequences, FiniteSets, TLC

(* ------------------------------ bounds -------------------------------- *)

\* largest number of citations handed to the worker pool in SpecPool
MaxCites == 2

\* largest number of citations the extraction service returns in Spec
MaxRunCites == 1

(* ----------------------------- characters ----------------------------- *)

UpperLetters ==
  <<"A", "B", "C", "D", "E", "F", "G", "H", "I",
    "J", "K", "L", "M", "N", "O", "P", "Q", "R",
    "S", "T", "U", "V", "W", "X", "Y", "Z">>
LowerLetters ==
  <<"a", "b", "c", "d", "e", "f", "g", "h", "i",
    "j", "k", "l", "m", "n", "o", "p", "q", "r",
    "s", "t", "u", "v", "w", "x", "y", "z">>

Upper == {UpperLetters[k] : k \in DOMAIN UpperLetters}
Lower == {LowerLetters[k] : k \in DOMAIN LowerLetters}
Digit == {"0", "1", "2", "3", "4", "5", "6", "7", "8", "9"}
Space == {" ", "\t"}

\* /\w/ : letters, digits and underscore
IsWord(ch) == ch \in Upper \cup Lower \cup Digit \cup {"_"}

\* /\s/
IsSpace(ch) == ch \in Space

\* the lower-case letter of each upper-case letter, and the reverse
LowerOf ==
  [ch \in Upper |->
     LowerLetters[CHOOSE k \in DOMAIN UpperLetters : UpperLetters[k] = ch]]
UpperOf ==
  [ch \in Lower |->
     UpperLetters[CHOOSE k \in DOMAIN LowerLetters : LowerLetters[k] = ch]]

toLowerCase(ch) == IF ch \in Upper THEN LowerOf[ch] ELSE ch
toUpperCase(ch) == IF ch \in Lower THEN UpperOf[ch] ELSE ch

\* .toLowerCase() of a string
LowerAll(s) == [k \in 1..Len(s) |-> toLowerCase(s[k])]

\* .toUpperCase() of a string
UpperAll(s) == [k \in 1..Len(s) |-> toUpperCase(s[k])]

\* .replace(/[^\w\s]/g, " ")
PunctToSpace(ch) == IF IsWord(ch) \/ IsSpace(ch) THEN ch ELSE " "
PunctAll(s) == [k \in 1..Len(s) |-> PunctToSpace(s[k])]

\* .replace(/\s+/g, " ")
RECURSIVE CollapseSpaces(_)
CollapseSpaces(s) ==
  IF Len(s) = 0 THEN <<>>
  ELSE IF IsSpace(s[1])
       THEN IF Len(s) > 1 /\ IsSpace(s[2])
            THEN CollapseSpaces(Tail(s))
            ELSE <<" ">> \o CollapseSpaces(Tail(s))
       ELSE <<s[1]>> \o CollapseSpaces(Tail(s))

RECURSIVE TrimLeft(_)
TrimLeft(s) ==
  IF Len(s) > 0 /\ IsSpace(s[1]) THEN TrimLeft(Tail(s)) ELSE s

RECURSIVE TrimRight(_)
TrimRight(s) ==
  IF Len(s) > 0 /\ IsSpace(s[Len(s)])
  THEN TrimRight(SubSeq(s, 1, Len(s) - 1))
  ELSE s

\* String.prototype.trim
trim(s) == TrimRight(TrimLeft(s))

\* a faulty normalize: the whitespace is collapsed before the punctuation
\* is replaced
normalizePunctLast(text) ==
  trim(PunctAll(CollapseSpaces(LowerAll(text))))

normalize(text) ==
  trim(CollapseSpaces(PunctAll(LowerAll(text))))

\* Array.prototype.join
RECURSIVE join(_, _)
join(parts, sep) ==
  IF Len(parts) = 0 THEN <<>>
  ELSE IF Len(parts) = 1 THEN parts[1]
  ELSE parts[1] \o sep \o join(Tail(parts), sep)

(* ------------------------------ rationals ----------------------------- *)

RECURSIVE GCD(_, _)
GCD(a, b) == IF b = 0 THEN a ELSE GCD(b, a % b)

Frac(n, d) == LET g == GCD(n, d) IN [n |-> n \div g, d |-> d \div g]

Zero == [n |-> 0, d |-> 1]
One == [n |-> 1, d |-> 1]

RAdd(x, y) == Frac(x.n * y.d + y.n * x.d, x.d * y.d)
RMul(x, y) == Frac(x.n * y.n, x.d * y.d)
RGeq(x, y) == x.n * y.d >= y.n * x.d
RGt(x, y) == x.n * y.d > y.n * x.d

\* Math.max
MathMax(x, y) == IF RGeq(x, y) THEN x ELSE y

(* ----------------------------- similarity ----------------------------- *)

\* dp[j] after row i of longestCommonSubstring: the length of the longest
\* common suffix of s1[1..i] and s2[1..j]
RECURSIVE CommonSuffix(_, _, _, _)
CommonSuffix(s1, s2, i, j) ==
  IF i = 0 \/ j = 0 THEN 0
  ELSE IF s1[i] = s2[j] THEN 1 + CommonSuffix(s1, s2, i - 1, j - 1)
  ELSE 0

NoMatch == [i |-> 0, j |-> 0, len |-> 0]

\* The scan is row-major and replaces the best only by a strictly longer
\* run, so the match returned ends at the first (i, j) in scan order whose
\* run has the greatest length.  i and j are the 0-based start offsets.
longestCommonSubstring(s1, s2) ==
  LET n == Len(s1)
      m == Len(s2)
      cells == (1..n) \X (1..m)
      run(c) == CommonSuffix(s1, s2, c[1], c[2])
      bestLen == IF cells = {} THEN 0
                 ELSE LET c == CHOOSE c \in cells :
                                 \A e \in cells : run(c) >= run(e)
                      IN run(c)
      before(c, e) == c[1] < e[1] \/ (c[1] = e[1] /\ c[2] <= e[2])
  IN IF bestLen = 0 THEN NoMatch
     ELSE LET hits == {c \in cells : run(c) = bestLen}
              first == CHOOSE c \in hits : \A e \in hits : before(c, e)
          IN [i |-> first[1] - bestLen, j |-> first[2] - bestLen,
              len |-> bestLen]

RECURSIVE lcsSum(_, _)
lcsSum(s1, s2) ==
  LET match == longestCommonSubstring(s1, s2)
  IN IF match.len = 0 THEN 0
     ELSE match.len
          + lcsSum(SubSeq(s1, 1, match.i), SubSeq(s2, 1, match.j))
          + lcsSum(SubSeq(s1, match.i + match.len + 1, Len(s1)),
                   SubSeq(s2, match.j + match.len + 1, Len(s2)))

\* a faulty ratio: the matches are divided by the length of b alone
sequenceMatcherRatioOverB(a, b) ==
  IF Len(a) = 0 /\ Len(b) = 0 THEN One
  ELSE IF Len(a) = 0 \/ Len(b) = 0 THEN Zero
  ELSE Frac(2 * lcsSum(a, b), Len(b))

\* a faulty ratio: two empty strings are taken as unlike
sequenceMatcherRatioEmptyZero(a, b) ==
  IF Len(a) = 0 \/ Len(b) = 0 THEN Zero
  ELSE Frac(2 * lcsSum(a, b), Len(a) + Len(b))

sequenceMatcherRatio(a, b) ==
  IF Len(a) = 0 /\ Len(b) = 0 THEN One
  ELSE IF Len(a) = 0 \/ Len(b) = 0 THEN Zero
  ELSE Frac(2 * lcsSum(a, b), Len(a) + Len(b))


(* ------------------------------- scoring ------------------------------ *)

\* a string the model uses for JavaScript's null / undefined title
NoTitle == <<"<null>">>

\* JavaScript truthiness of a string-or-null value
Truthy(str) == str # NoTitle /\ Len(str) > 0

Range(s) == {s[k] : k \in 1..Len(s)}

\* new Set(list.map(normalize).filter(Boolean))
NormSet(list) == {normalize(a) : a \in Range(list)} \ {<<>>}

\* titleScore * 0.8 + authorScore * 0.2
TitleWeight == Frac(4, 5)
AuthorWeight == Frac(1, 5)

titleScore(refTitle, foundTitle) ==
  IF Truthy(refTitle) /\ Truthy(foundTitle)
  THEN sequenceMatcherRatio(normalize(refTitle), normalize(foundTitle))
  ELSE Zero

\* a faulty overlap: the share of the found names that are cited
authorScoreOverFound(refAuthors, foundAuthors) ==
  IF Len(refAuthors) > 0 /\ Len(foundAuthors) > 0
  THEN LET refSet == NormSet(refAuthors)
           foundSet == NormSet(foundAuthors)
       IN IF foundSet # {}
          THEN Frac(Cardinality(refSet \cap foundSet), Cardinality(foundSet))
          ELSE Zero
  ELSE Zero

authorScore(refAuthors, foundAuthors) ==
  IF Len(refAuthors) > 0 /\ Len(foundAuthors) > 0
  THEN LET refSet == NormSet(refAuthors)
           foundSet == NormSet(foundAuthors)
       IN IF refSet # {}
          THEN Frac(Cardinality(refSet \cap foundSet), Cardinality(refSet))
          ELSE Zero
  ELSE Zero

\* a faulty score: the title weighs 0.7 and the authors 0.3
scoreMatchFieldsSeventy(refTitle, refAuthors, foundTitle, foundAuthors) ==
  RAdd(RMul(titleScore(refTitle, foundTitle), Frac(7, 10)),
       RMul(authorScore(refAuthors, foundAuthors), Frac(3, 10)))

scoreMatchFields(refTitle, refAuthors, foundTitle, foundAuthors) ==
  RAdd(RMul(titleScore(refTitle, foundTitle), TitleWeight),
       RMul(authorScore(refAuthors, foundAuthors), AuthorWeight))

(* ------------------------- fetch with retries ------------------------- *)

\* default of retryFetch's attempts parameter
RetryAttempts == 5
\* Math.min(1000 * Math.pow(2, i), 10000)
BackoffBaseMs == 1000
BackoffCapMs == 10000

RECURSIVE Pow2(_)
Pow2(i) == IF i = 0 THEN 1 ELSE 2 * Pow2(i - 1)

Min(a, b) == IF a <= b THEN a ELSE b

backoffMs(i) == Min(BackoffBaseMs * Pow2(i), BackoffCapMs)

\* what one fetchWithTimeout call does: it throws (network error, or the
\* abort timer fired) or it returns a response with a status
NetErr == [kind |-> "neterr", status |-> 0]
Timeout == [kind |-> "timeout", status |-> 0]
Resp(st) == [kind |-> "response", status |-> st]
FetchOutcomes == {NetErr, Timeout, Resp(200), Resp(404), Resp(429), Resp(503)}

IsRetryStatus(st) == st >= 500 \/ st = 429

\* the body of retryFetch's for loop from attempt i on; script[i + 1] is
\* what the (i+1)-th fetch does
RECURSIVE retryLoop(_, _, _, _)
retryLoop(script, attempts, i, waits) ==
  IF i >= attempts
  THEN [threw |-> TRUE, status |-> 0, fetches |-> i, waits |-> waits]
  ELSE LET o == script[i + 1]
       IN IF o.kind = "response"
          THEN IF IsRetryStatus(o.status) /\ i < attempts - 1
               THEN retryLoop(script, attempts, i + 1,
                              Append(waits, backoffMs(i)))
               ELSE [threw |-> FALSE, status |-> o.status,
                     fetches |-> i + 1, waits |-> waits]
          ELSE IF i < attempts - 1
               THEN retryLoop(script, attempts, i + 1,
                              Append(waits, backoffMs(i)))
               ELSE [threw |-> TRUE, status |-> 0,
                     fetches |-> i + 1, waits |-> waits]

retryFetch(script, attempts) == retryLoop(script, attempts, 0, <<>>)

\* Response.ok
ResOk(st) == st >= 200 /\ st <= 299

Scripts == [1..RetryAttempts -> FetchOutcomes]

\* what a caller of retryFetch can observe of one call
RetryResults ==
  {[threw |-> r.threw, status |-> r.status] :
     r \in {retryFetch(s, RetryAttempts) : s \in Scripts}}

(* ------------------------ the two lookup services --------------------- *)

\* a candidate as a service returns it; NoItem is JavaScript's null
NoItem == [isNull |-> TRUE, title |-> NoTitle, authors |-> <<>>, id |-> ""]
Item(t, as, id) == [isNull |-> FALSE, title |-> t, authors |-> as, id |-> id]

\* what an async function hands its caller: a value, or a rejection
Returns(v) == [threw |-> FALSE, value |-> v]
Throws == [threw |-> TRUE, value |-> NoItem]

\* One strategy of a lookup as the service answers it: what retryFetch
\* observes, and the body of the response (json: res.json() parsed it;
\* data: the candidates it lists).
Answer(r, isJson, cands) == [res |-> r, json |-> isJson, data |-> cands]

\* the try block of strategy 1 of semanticScholarLookup
ssMatchTry(ans) ==
  IF ans.res.threw THEN [threw |-> TRUE, found |-> FALSE, item |-> NoItem]
  ELSE IF ResOk(ans.res.status) /\ ans.json /\ Len(ans.data) > 0
       THEN [threw |-> FALSE, found |-> TRUE, item |-> ans.data[1]]
       ELSE [threw |-> FALSE, found |-> FALSE, item |-> NoItem]

\* the loop "find best match by title similarity": k is the next element,
\* best the match so far and bestScore its similarity
RECURSIVE bestByTitle(_, _, _, _, _)
bestByTitle(title, arr, k, best, bestScore) ==
  IF k > Len(arr) THEN best
  ELSE IF Truthy(arr[k].title)
       THEN LET score == sequenceMatcherRatio(normalize(title),
                                              normalize(arr[k].title))
            IN IF RGt(score, bestScore)
               THEN bestByTitle(title, arr, k + 1, arr[k], score)
               ELSE bestByTitle(title, arr, k + 1, best, bestScore)
       ELSE bestByTitle(title, arr, k + 1, best, bestScore)

\* the try block of strategy 2 of semanticScholarLookup
ssSearchTry(title, ans) ==
  IF ans.res.threw THEN [threw |-> TRUE, found |-> FALSE, item |-> NoItem]
  ELSE IF ResOk(ans.res.status) /\ ans.json /\ Len(ans.data) > 0
       THEN [threw |-> FALSE, found |-> TRUE,
             item |-> bestByTitle(title, ans.data, 1, ans.data[1], Zero)]
       ELSE [threw |-> FALSE, found |-> FALSE, item |-> NoItem]

\* a faulty lookup: strategy 2 without its try / catch
semanticScholarLookupUncaught(title, authors, beh) ==
  IF Len(trim(title)) = 0 THEN Returns(NoItem)
  ELSE LET t1 == ssMatchTry(beh.s1)
       IN IF ~t1.threw /\ t1.found THEN Returns(t1.item)
          ELSE LET t2 == ssSearchTry(title, beh.s2)
               IN IF t2.threw THEN Throws
                  ELSE IF t2.found THEN Returns(t2.item)
                  ELSE Returns(NoItem)

\* beh.s1 and beh.s2 are the service's answers to strategy 1 and 2; each
\* try block has a catch that only logs
semanticScholarLookup(title, authors, beh) ==
  IF Len(trim(title)) = 0 THEN Returns(NoItem)
  ELSE LET t1 == ssMatchTry(beh.s1)
       IN IF ~t1.threw /\ t1.found THEN Returns(t1.item)
          ELSE LET t2 == ssSearchTry(title, beh.s2)
               IN IF ~t2.threw /\ t2.found THEN Returns(t2.item)
                  ELSE Returns(NoItem)

extractSemanticScholarFields(item) ==
  IF item.isNull THEN [title |-> NoTitle, authors |-> <<>>, paperId |-> ""]
  ELSE [title |-> item.title,
        authors |-> SelectSeq(item.authors, LAMBDA x : Len(trim(x)) > 0),
        paperId |-> item.id]

\* An arXiv answer lists the <entry> elements of the feed; json = FALSE
\* stands for a body res.text() cannot read.  Entries without a title are
\* dropped, titles and names are whitespace-collapsed and trimmed.
parseArxivXML(entries) ==
  LET clean(x) == trim(CollapseSpaces(x))
      parsed == [k \in 1..Len(entries) |->
                   [isNull |-> FALSE,
                    title |-> IF entries[k].title = NoTitle THEN NoTitle
                              ELSE clean(entries[k].title),
                    authors |-> SelectSeq([a \in 1..Len(entries[k].authors) |->
                                             clean(entries[k].authors[a])],
                                          LAMBDA x : Len(x) > 0),
                    id |-> entries[k].id]]
  IN SelectSeq(parsed, LAMBDA e : Truthy(e.title))

\* the try block of strategy 1 of arxivLookup
arxivTitleTry(title, ans) ==
  IF ans.res.threw THEN [threw |-> TRUE, found |-> FALSE, item |-> NoItem]
  ELSE IF ResOk(ans.res.status)
       THEN IF ~ans.json
            THEN [threw |-> TRUE, found |-> FALSE, item |-> NoItem]
            ELSE LET entries == parseArxivXML(ans.data)
                 IN IF Len(entries) > 0
                    THEN [threw |-> FALSE, found |-> TRUE,
                          item |-> bestByTitle(title, entries, 1,
                                               entries[1], Zero)]
                    ELSE [threw |-> FALSE, found |-> FALSE, item |-> NoItem]
       ELSE [threw |-> FALSE, found |-> FALSE, item |-> NoItem]

\* the try block of strategy 2 of arxivLookup
arxivAuthorTry(ans) ==
  IF ans.res.threw THEN [threw |-> TRUE, found |-> FALSE, item |-> NoItem]
  ELSE IF ResOk(ans.res.status)
       THEN IF ~ans.json
            THEN [threw |-> TRUE, found |-> FALSE, item |-> NoItem]
            ELSE LET entries == parseArxivXML(ans.data)
                 IN IF Len(entries) > 0
                    THEN [threw |-> FALSE, found |-> TRUE, item |-> entries[1]]
                    ELSE [threw |-> FALSE, found |-> FALSE, item |-> NoItem]
       ELSE [threw |-> FALSE, found |-> FALSE, item |-> NoItem]

\* title?.trim().replace(/[^\w\s]/g, " ").replace(/\s+/g, " ")
cleanTitle(title) == CollapseSpaces(PunctAll(trim(title)))

\* authors?.[0] is truthy
HasFirstAuthor(authors) == Len(authors) > 0 /\ Len(authors[1]) > 0

arxivLookup(title, authors, beh) ==
  IF Len(cleanTitle(title)) = 0 THEN Returns(NoItem)
  ELSE LET t1 == arxivTitleTry(title, beh.s1)
       IN IF ~t1.threw /\ t1.found THEN Returns(t1.item)
          ELSE IF HasFirstAuthor(authors)
               THEN LET t2 == arxivAuthorTry(beh.s2)
                    IN IF ~t2.threw /\ t2.found THEN Returns(t2.item)
                       ELSE Returns(NoItem)
               ELSE Returns(NoItem)

(* ---------------------------- verifyCitation -------------------------- *)

\* `${normalize(c.title)}|${normalize((c.authors || []).join(","))}`
cacheKey(c) == normalize(c.title) \o <<"|">> \o normalize(join(c.authors, <<",">>))

NoUrl == [src |-> "null", id |-> ""]

\* a faulty threshold test: score > minScore
statusOfStrict(score, threshold) ==
  IF RGt(score, threshold) THEN "verified" ELSE "unverified"

\* score >= minScore ? "verified" : "unverified"
statusOf(score, threshold) ==
  IF RGeq(score, threshold) THEN "verified" ELSE "unverified"

\* a faulty sourceUrl: Semantic Scholar's URL without the test of paperId
sourceUrlOfUnguarded(status, ssScore, arxivScore, paperId, arxivId) ==
  IF status = "verified"
  THEN IF RGeq(ssScore, arxivScore)
       THEN [src |-> "semanticscholar", id |-> paperId]
       ELSE IF arxivId # "" THEN [src |-> "arxiv", id |-> arxivId]
            ELSE [src |-> "null", id |-> ""]
  ELSE [src |-> "null", id |-> ""]

\* a faulty sourceUrl: a tie goes to arXiv (ssScore > arxivScore)
sourceUrlOfStrictTie(status, ssScore, arxivScore, paperId, arxivId) ==
  IF status = "verified"
  THEN IF RGt(ssScore, arxivScore) /\ paperId # ""
       THEN [src |-> "semanticscholar", id |-> paperId]
       ELSE IF arxivId # "" THEN [src |-> "arxiv", id |-> arxivId]
            ELSE [src |-> "null", id |-> ""]
  ELSE [src |-> "null", id |-> ""]

\* a faulty sourceUrl: set without the test of status
sourceUrlOfAnyStatus(status, ssScore, arxivScore, paperId, arxivId) ==
  IF RGeq(ssScore, arxivScore) /\ paperId # ""
  THEN [src |-> "semanticscholar", id |-> paperId]
  ELSE IF arxivId # "" THEN [src |-> "arxiv", id |-> arxivId]
       ELSE [src |-> "null", id |-> ""]

\* the if / else-if that sets sourceUrl
sourceUrlOf(status, ssScore, arxivScore, paperId, arxivId) ==
  IF status = "verified"
  THEN IF RGeq(ssScore, arxivScore) /\ paperId # ""
       THEN [src |-> "semanticscholar", id |-> paperId]
       ELSE IF arxivId # "" THEN [src |-> "arxiv", id |-> arxivId]
       ELSE NoUrl
  ELSE NoUrl

NoSummary == [isNull |-> TRUE, title |-> NoTitle, authors |-> <<>>, score |-> Zero]
Summary(t, as, sc) == [isNull |-> FALSE, title |-> t, authors |-> as, score |-> sc]

NoErrors == [attached |-> FALSE, semanticScholar |-> FALSE, arXiv |-> FALSE]

\* result.lookup_errors, set only if process.env.VERIFY_DEBUG === "1"; a
\* field is TRUE when it holds an error message, FALSE when it is null
lookupErrorsOf(dbg, ssError, arxivError) ==
  IF dbg
  THEN [attached |-> TRUE, semanticScholar |-> ssError, arXiv |-> arxivError]
  ELSE NoErrors

\* an element of the results array that was never assigned
NoResult ==
  [filled |-> FALSE, ref |-> [title |-> NoTitle, authors |-> <<>>],
   score |-> Zero, status |-> "none", semantic_scholar |-> NoSummary,
   arxiv |-> NoSummary, sourceUrl |-> NoUrl, lookup_errors |-> NoErrors]

\* verifyCitation from the two lookups' completion to the result object;
\* ssRet and arxRet are what the awaited lookups returned or threw
verifyCitationResult(c, threshold, ssRet, arxRet, dbg) ==
  LET ssItem == IF ssRet.threw THEN NoItem ELSE ssRet.value
      arxiv == IF arxRet.threw THEN NoItem ELSE arxRet.value
      ss == extractSemanticScholarFields(ssItem)
      ssScore == IF ~ssItem.isNull
                 THEN scoreMatchFields(c.title, c.authors, ss.title, ss.authors)
                 ELSE Zero
      arxivScore == IF ~arxiv.isNull
                    THEN scoreMatchFields(c.title, c.authors,
                                          arxiv.title, arxiv.authors)
                    ELSE Zero
      score == MathMax(ssScore, arxivScore)
      status == statusOf(score, threshold)
  IN [filled |-> TRUE,
      ref |-> c,
      score |-> score,
      status |-> status,
      semantic_scholar |-> IF ~ssItem.isNull
                           THEN Summary(ss.title, ss.authors, ssScore)
                           ELSE NoSummary,
      arxiv |-> IF ~arxiv.isNull
                THEN Summary(arxiv.title, arxiv.authors, arxivScore)
                ELSE NoSummary,
      sourceUrl |-> sourceUrlOf(status, ssScore, arxivScore, ss.paperId,
                                arxiv.id),
      lookup_errors |-> lookupErrorsOf(dbg, ssRet.threw, arxRet.threw)]

(* ------------------------------ input sets ---------------------------- *)

Cite(t, as) == [title |-> t, authors |-> as]

\* "Ab" by x and "ab" by x share a cache key; "b" without authors does not
CitationPool ==
  {Cite(<<"A", "b">>, << <<"x">> >>),
   Cite(<<"a", "b">>, << <<"x">> >>),
   Cite(<<"b">>, <<>>)}

SSItems ==
  {Item(<<"a", "b">>, << <<"x">> >>, "p1"),
   Item(<<"a", "b">>, << <<"x">> >>, "")}

ArxivEntries ==
  {Item(<<"a", "b">>, << <<"x">> >>, "a1"),
   Item(<<"b">>, <<>>, "")}

\* the candidate lists a 200 response may carry
ListsOf(pool) == {<<>>} \cup {<<e>> : e \in pool}
                 \cup {<<e, f>> : e \in pool, f \in pool}

\* the answers of a service to one strategy: retryFetch gave up, or a
\* response that is not ok, or a 200 whose body is unreadable or lists
\* candidates
AnswersOf(pool) ==
  {Answer(r, FALSE, <<>>) : r \in RetryResults}
  \cup {Answer(r, TRUE, l) : r \in {x \in RetryResults : ~x.threw /\ ResOk(x.status)},
                             l \in ListsOf(pool)}

Behaviours(pool) == [s1 : AnswersOf(pool), s2 : AnswersOf(pool)]

\* an answer that offers a candidate
HasCandidate(ans) ==
  ~ans.res.threw /\ ResOk(ans.res.status) /\ ans.json /\ Len(ans.data) > 0

\* For each citation of the pool, what a lookup can return together with
\* whether the service offered a candidate in any of its answers.
SSOutcomes ==
  UNION {{[cite |-> c,
           ret |-> semanticScholarLookup(c.title, c.authors, b),
           offered |-> HasCandidate(b.s1) \/ HasCandidate(b.s2)] :
            b \in Behaviours(SSItems)} : c \in CitationPool}

ArxivOutcomes ==
  UNION {{[cite |-> c,
           ret |-> arxivLookup(c.title, c.authors, b),
           offered |-> HasCandidate(b.s1) \/ HasCandidate(b.s2)] :
            b \in Behaviours(ArxivEntries)} : c \in CitationPool}

Half == [n |-> 1, d |-> 2]

\* the values of min_score the route accepts
MinScores == {Zero, Half, One}

(* -------------------------------- state ------------------------------- *)

VARIABLES
  pc,            \* where the POST handler is
  variant,       \* "json": route.ts; "stream": the streaming POST
  debug,         \* process.env.VERIFY_DEBUG === "1"
  minScoreRaw,   \* formData.get("min_score") as POST read it
  minScore,      \* the run's threshold
  items,         \* extracted.citations
  concurrency,   \* CONCURRENCY
  events,        \* what the handler pushed to the caller, in order
  closed,        \* the stream controller is closed
  response,      \* the JSON response returned, if any
  paper,         \* the papers row of this run
  rows,          \* the citations rows stored
  verifications, \* what mapWithConcurrency resolved to
  section,       \* referencesSection.trim(): "unset", "blank" or "text"
  dsLog,         \* callDeepSeekJSON: how each attempt so far ended
  schema,        \* ExtractedCitationsSchema.parse: "unset", "threw", "parsed"
  report,        \* the report the run returned, if any
  nextIndex,     \* mapWithConcurrency: the shared counter
  results,       \* mapWithConcurrency: the results array
  cache,         \* lookupCache
  wpc,           \* per worker: the await it is suspended at
  widx,          \* per worker: its local idx
  wss,           \* per worker: what semanticScholarLookup returned
  wret,          \* per worker: what fn(items[idx], idx) resolved to
  returned,      \* per index: the value its fn invocation resolved to
  calls,         \* per index: how often fn was invoked for it
  claimedBy,     \* per index: the workers that drew it from nextIndex
  writes,        \* the assignments to results, in order: slot and worker
  looked,        \* per index: the lookups that went to a service for it
  lookupLog,     \* per index: what its two lookups met and returned
  rfPc,          \* one lookup call: "idle", "fetch", "sleep" or "returned"
  rfLog,         \* retryFetch: what each fetch of this call met, and the
                 \* sleep that followed it
  rfDone,        \* the retryFetch calls of this lookup that have settled
  rfRet,         \* what the lookup returned
  scPc,          \* the scoring of one citation: "idle", "called", "scored"
  scArgs,        \* the citation and the two candidates it is scored against
  scOut,         \* the result object built from them
  aborted,       \* request.signal.aborted: the caller has gone away
  exPc,          \* extractCitationsFromReferences: "idle", "called",
                 \* "chunked", "returned" or "threw"
  exLines,       \* the lines of the references section: their lengths
  exChunks,      \* chunkReferencesSection: per chunk, the lines it holds
  exAll,         \* allCitations
  exTitle,       \* paperTitle
  exOut,         \* the citations returned
  fnPc,          \* a string function on its own: "idle", "called", "returned"
  fnArgs,        \* the strings it is called with
  fnOut          \* what the calls returned

runVars == <<pc, variant, debug, minScoreRaw, minScore, items, concurrency, events, closed,
             response, paper, rows, verifications, section, dsLog, schema, report>>
poolVars == <<nextIndex, results, cache, wpc, widx, wss, wret>>
logVars == <<returned, calls, claimedBy, writes, looked, lookupLog>>
retryVars == <<rfPc, rfLog, rfDone, rfRet>>
scoreVars == <<scPc, scArgs, scOut>>
extractVars == <<exPc, exLines, exChunks, exAll, exTitle, exOut>>
fnVars == <<fnPc, fnArgs, fnOut>>
unitVars == <<retryVars, scoreVars, aborted, extractVars, fnVars>>
vars == <<runVars, poolVars, logVars, unitVars>>

\* no string function is followed on its own
FnIdle ==
  /\ fnPc = "idle"
  /\ fnArgs = <<>>
  /\ fnOut = <<>>

\* extractCitationsFromReferences has not been called
ExtractIdle ==
  /\ exPc = "idle"
  /\ exLines = <<>>
  /\ exChunks = <<>>
  /\ exAll = [i |-> 0, list |-> <<>>]
  /\ exTitle = <<>>
  /\ exOut = <<>>

(* --------------------------- mapWithConcurrency ----------------------- *)

\* a faulty draw: the value of the counter before the previous draw
claimedIndexStale(next) == IF next > 0 THEN next - 1 ELSE 0

\* the value of `nextIndex++`
claimedIndex(next) == next

\* nextIndex after `nextIndex++`
afterClaim(next) == next + 1

\* a faulty assignment: the slot is taken from the shared counter at the
\* time of the assignment instead of the worker's local idx
writeIndexByCounter(idx, next) == next - 1

\* the slot `results[idx] = await fn(items[idx], idx)` assigns: idx is the
\* worker's local, next the shared counter at the time of the assignment
writeIndex(idx, next) == idx

IsInteger(q) == q.d = 1

\* Math.min(concurrency, items.length)
poolSize(conc, n) == IF RGeq(conc, Frac(n, 1)) THEN Frac(n, 1) ELSE conc

Workers == DOMAIN wpc

\* ss, arxiv: "none" before the lookup settles, then whether the service
\* offered a candidate in any answer; ssThrew, arxivThrew: the lookup's
\* promise rejected; ssId, arxivId: the id of the candidate returned
NoLog == [ss |-> "none", arxiv |-> "none", ssThrew |-> FALSE,
          arxivThrew |-> FALSE, ssId |-> "", arxivId |-> ""]
Met(o) == IF o.offered THEN "offered" ELSE "nocand"

\* the progress event the streaming fn pushes before verifyCitation
ProgressDue(idx, n) ==
  LET q == n \div 4
      step == IF q >= 1 THEN q ELSE 1
  IN idx % step = 0

Event(type, message) == [type |-> type, message |-> message]

\* push: controller.enqueue inside try / catch; enqueue throws once the
\* controller is closed and the catch ignores it
push(evs, isClosed, ev) == IF isClosed THEN evs ELSE Append(evs, ev)

\* push({ type: 'progress', message }) of the streaming POST; route.ts has
\* no such statement
progress(evs, isClosed, message) ==
  IF variant = "stream" THEN push(evs, isClosed, Event("progress", message))
  ELSE evs

\* the events of the fn invocations for the indices of idxs, in order
RECURSIVE fnEvents(_, _, _, _)
fnEvents(evs, isClosed, idxs, n) ==
  IF Len(idxs) = 0 THEN evs
  ELSE fnEvents(
         IF ProgressDue(Head(idxs), n)
         THEN progress(evs, isClosed, "Verifying citations (i/n)")
         ELSE evs,
         isClosed, Tail(idxs), n)

NoResponse == [sent |-> FALSE, status |-> 0, kind |-> "none", message |-> ""]

\* new Response(stream, ...), which the streaming POST returns at once
StreamResponse == [sent |-> TRUE, status |-> 200, kind |-> "stream", message |-> ""]

\* a faulty ending: an error path of the streaming POST that calls finish()
\* without the push before it
TerminalUnreported(evs, kind, status, message) ==
  /\ pc' = "done"
  /\ IF variant = "stream"
     THEN /\ events' = IF kind = "error" THEN evs
                       ELSE push(evs, closed, Event(kind, message))
          /\ closed' = TRUE
          /\ UNCHANGED response
     ELSE /\ response' = [sent |-> TRUE, status |-> status, kind |-> kind,
                          message |-> message]
          /\ events' = evs
          /\ UNCHANGED closed

\* How the handler ends after the events evs: route.ts returns
\* Response.json(body, { status }); the streaming POST pushes the event and
\* closes the controller (push + finish, or the enqueue and close of its
\* catch block).
Terminal(evs, kind, status, message) ==
  /\ pc' = "done"
  /\ IF variant = "stream"
     THEN /\ events' = push(evs, closed, Event(kind, message))
          /\ closed' = TRUE
          /\ UNCHANGED response
     ELSE /\ response' = [sent |-> TRUE, status |-> status, kind |-> kind,
                          message |-> message]
          /\ events' = evs
          /\ UNCHANGED closed

\* new Array(Math.min(concurrency, items.length)) throws RangeError unless
\* the length is a non-negative integer; POST's catch reports it
PoolStartThrows ==
  /\ pc = "verify"
  /\ ~IsInteger(poolSize(concurrency, Len(items)))
  /\ Terminal(events, "error", 500, "Invalid array length")
  /\ UNCHANGED <<variant, debug, minScoreRaw, minScore, items, concurrency, paper, rows,
                 verifications, section, dsLog, schema, report>>
  /\ UNCHANGED <<poolVars, logVars>>
  /\ UNCHANGED unitVars

\* The workers are created by .map(async () => ...): each runs at once up
\* to its first await, in order, so worker k draws index k - 1, invokes fn
\* and, the cache being empty, suspends in verifyCitation's sleep(100).
PoolStart ==
  /\ pc = "verify"
  /\ IsInteger(poolSize(concurrency, Len(items)))
  /\ LET n == Len(items)
         W == poolSize(concurrency, n).n
     IN /\ pc' = "pool"
        /\ nextIndex' = W
        /\ results' = [i \in 1..n |-> NoResult]
        /\ cache' = <<>>
        /\ wpc' = [k \in 1..W |-> "sleep"]
        /\ widx' = [k \in 1..W |-> claimedIndex(k - 1)]
        /\ wss' = [k \in 1..W |-> Returns(NoItem)]
        /\ wret' = [k \in 1..W |-> NoResult]
        /\ returned' = [i \in 1..n |-> NoResult]
        /\ calls' = [i \in 1..n |->
                       Cardinality({k \in 1..W : claimedIndex(k - 1) = i - 1})]
        /\ claimedBy' = [i \in 1..n |->
                           {k \in 1..W : claimedIndex(k - 1) = i - 1}]
        /\ writes' = <<>>
        /\ looked' = [i \in 1..n |-> 0]
        /\ lookupLog' = [i \in 1..n |-> NoLog]
        /\ events' = fnEvents(events, closed,
                              [k \in 1..W |-> claimedIndex(k - 1)], n)
  /\ UNCHANGED <<variant, debug, minScoreRaw, minScore, items, concurrency, closed,
                 response, paper, rows, verifications, section, dsLog, schema, report>>
  /\ UNCHANGED unitVars

\* sleep(100) is over: semanticScholarLookup is called and, unless the
\* query is blank, sends its first request
AfterSleep(k) ==
  /\ pc = "pool"
  /\ wpc[k] = "sleep"
  /\ LET i == widx[k] + 1
     IN looked' = [looked EXCEPT
                     ![i] = @ + IF Len(trim(items[i].title)) > 0 THEN 1 ELSE 0]
  /\ wpc' = [wpc EXCEPT ![k] = "ss"]
  /\ UNCHANGED <<runVars, nextIndex, results, cache, widx, wss, wret,
                 returned, calls, claimedBy, writes, lookupLog>>
  /\ UNCHANGED unitVars

\* a faulty verifyCitation: it scores as soon as semanticScholarLookup has
\* settled and never calls arxivLookup
SemanticScholarDoneScores(k) ==
  /\ pc = "pool"
  /\ wpc[k] = "ss"
  /\ LET i == widx[k] + 1
         c == items[i]
     IN \E o \in SSOutcomes :
          /\ o.cite = c
          /\ LET result == verifyCitationResult(c, minScore, o.ret,
                                                Returns(NoItem), debug)
                 key == cacheKey(c)
             IN /\ cache' = [x \in DOMAIN cache \cup {key} |->
                               IF x = key THEN result ELSE cache[x]]
                /\ wret' = [wret EXCEPT ![k] = result]
                /\ returned' = [returned EXCEPT ![i] = result]
                /\ wss' = [wss EXCEPT ![k] = o.ret]
                /\ lookupLog' = [lookupLog EXCEPT
                                   ![i].ss = Met(o),
                                   ![i].ssThrew = o.ret.threw,
                                   ![i].ssId = o.ret.value.id]
  /\ wpc' = [wpc EXCEPT ![k] = "await"]
  /\ UNCHANGED <<runVars, nextIndex, results, widx,
                 calls, claimedBy, writes, looked>>
  /\ UNCHANGED unitVars

\* semanticScholarLookup settles; arxivLookup is called
SemanticScholarDone(k) ==
  /\ pc = "pool"
  /\ wpc[k] = "ss"
  /\ LET i == widx[k] + 1
     IN \E o \in SSOutcomes :
          /\ o.cite = items[i]
          /\ wss' = [wss EXCEPT ![k] = o.ret]
          /\ lookupLog' = [lookupLog EXCEPT
                             ![i].ss = Met(o),
                             ![i].ssThrew = o.ret.threw,
                             ![i].ssId = o.ret.value.id]
          /\ looked' = [looked EXCEPT
                          ![i] = @ + IF Len(cleanTitle(items[i].title)) > 0
                                     THEN 1 ELSE 0]
  /\ wpc' = [wpc EXCEPT ![k] = "arxiv"]
  /\ UNCHANGED <<runVars, nextIndex, results, cache, widx, wret,
                 returned, calls, claimedBy, writes>>
  /\ UNCHANGED unitVars

\* arxivLookup settles; verifyCitation scores, stores the result in the
\* cache and returns it
ArxivDone(k) ==
  /\ pc = "pool"
  /\ wpc[k] = "arxiv"
  /\ LET i == widx[k] + 1
         c == items[i]
     IN \E o \in ArxivOutcomes :
          /\ o.cite = c
          /\ LET result == verifyCitationResult(c, minScore, wss[k], o.ret, debug)
              key == cacheKey(c)
             IN /\ cache' = [x \in DOMAIN cache \cup {key} |->
                               IF x = key THEN result ELSE cache[x]]
                /\ wret' = [wret EXCEPT ![k] = result]
                /\ returned' = [returned EXCEPT ![i] = result]
                /\ lookupLog' = [lookupLog EXCEPT
                                   ![i].arxiv = Met(o),
                                   ![i].arxivThrew = o.ret.threw,
                                   ![i].arxivId = o.ret.value.id]
  /\ wpc' = [wpc EXCEPT ![k] = "await"]
  /\ UNCHANGED <<runVars, nextIndex, results, widx, wss,
                 calls, claimedBy, writes, looked>>
  /\ UNCHANGED unitVars

\* The worker resumes from `await fn(...)`: it assigns the slot, draws the
\* next index and, if there is one, invokes fn, which returns the cached
\* result on a hit and suspends in sleep(100) on a miss.
Resume(k) ==
  /\ pc = "pool"
  /\ wpc[k] = "await"
  /\ LET n == Len(items)
         slot == writeIndex(widx[k], nextIndex) + 1
         idx == claimedIndex(nextIndex)
     IN /\ slot \in 1..n
        /\ results' = [results EXCEPT ![slot] = wret[k]]
        /\ writes' = Append(writes, [slot |-> slot, worker |-> k])
        /\ nextIndex' = afterClaim(nextIndex)
        /\ widx' = [widx EXCEPT ![k] = idx]
        /\ IF idx >= n
           THEN /\ wpc' = [wpc EXCEPT ![k] = "finished"]
                /\ UNCHANGED <<wret, returned, calls, claimedBy, events>>
           ELSE LET key == cacheKey(items[idx + 1])
                    hit == key \in DOMAIN cache
                IN /\ calls' = [calls EXCEPT ![idx + 1] = @ + 1]
                   /\ claimedBy' = [claimedBy EXCEPT ![idx + 1] = @ \cup {k}]
                   /\ events' = fnEvents(events, closed, <<idx>>, n)
                   /\ wpc' = [wpc EXCEPT ![k] = IF hit THEN "await" ELSE "sleep"]
                   /\ wret' = [wret EXCEPT ![k] = IF hit THEN cache[key] ELSE NoResult]
                   /\ returned' = IF hit
                                  THEN [returned EXCEPT ![idx + 1] = cache[key]]
                                  ELSE returned
  /\ UNCHANGED <<pc, variant, debug, minScoreRaw, minScore, items, concurrency, closed,
                 response, paper, rows, verifications, section, dsLog, schema, report>>
  /\ UNCHANGED <<cache, wss, looked, lookupLog>>
  /\ UNCHANGED unitVars

\* Promise.all(workers) resolves once every worker has left its loop
PoolReturn ==
  /\ pc = "pool"
  /\ \A k \in Workers : wpc[k] = "finished"
  /\ verifications' = results
  /\ pc' = "aggregate"
  /\ UNCHANGED <<variant, debug, minScoreRaw, minScore, items, concurrency, events, closed,
                 response, paper, rows, section, dsLog, schema, report>>
  /\ UNCHANGED <<poolVars, logVars>>
  /\ UNCHANGED unitVars

(* ------------------- the worker pool on its own ----------------------- *)

\* CONCURRENCY as route.ts resolves it from VERIFY_LOOKUP_CONCURRENCY:
\* a positive integer, or a positive fraction such as 0.5
Concurrencies == {Frac(1, 2)} \cup {Frac(w, 1) : w \in 1..MaxCites}

CiteLists(max) ==
  UNION {[1..n -> CitationPool] : n \in 1..max}

NoPaper == [stored |-> FALSE, status |-> "none", total |-> 0,
            verified |-> 0, unverified |-> 0]
NoReport == [sent |-> FALSE, total |-> 0, verified |-> 0, unverified |-> 0,
             citations |-> <<>>]

\* the state in which POST calls mapWithConcurrency
InitPool ==
  /\ pc = "verify"
  /\ variant = "json"
  /\ debug \in BOOLEAN
  /\ minScore \in MinScores
  /\ minScoreRaw = [isString |-> TRUE,
                    number |-> [finite |-> TRUE, value |-> minScore]]
  /\ items \in CiteLists(MaxCites)
  /\ concurrency \in Concurrencies
  /\ events = <<>>
  /\ closed = FALSE
  /\ response = NoResponse
  /\ paper = [stored |-> TRUE, status |-> "processing", total |-> Len(items),
              verified |-> 0, unverified |-> 0]
  /\ rows = <<>>
  /\ verifications = <<>>
  /\ section = "text"
  /\ dsLog = << [status |-> 200, ok |-> TRUE, wait |-> 0,
                 raw |-> [wellTyped |-> TRUE,
                          citations |->
                            [i \in DOMAIN items |->
                               [hasTitle |-> TRUE, title |-> items[i].title,
                                hasAuthors |-> TRUE,
                                authors |-> items[i].authors]]]] >>
  /\ schema = "parsed"
  /\ report = NoReport
  /\ nextIndex = 0
  /\ results = <<>>
  /\ cache = <<>>
  /\ wpc = <<>>
  /\ widx = <<>>
  /\ wss = <<>>
  /\ wret = <<>>
  /\ returned = <<>>
  /\ calls = <<>>
  /\ claimedBy = <<>>
  /\ writes = <<>>
  /\ looked = <<>>
  /\ lookupLog = <<>>
  /\ rfPc = "idle"
  /\ rfLog = <<>>
  /\ rfDone = <<>>
  /\ rfRet = Returns(NoItem)
  /\ scPc = "idle"
  /\ scArgs = [c |-> Cite(<<>>, <<>>), ss |-> NoItem, arxiv |-> NoItem]
  /\ scOut = NoResult
  /\ aborted = FALSE
  /\ ExtractIdle
  /\ FnIdle

NextPool ==
  \/ PoolStartThrows
  \/ PoolStart
  \/ \E k \in Workers : AfterSleep(k)
  \/ \E k \in Workers : SemanticScholarDone(k)
  \/ \E k \in Workers : ArxivDone(k)
  \/ \E k \in Workers : Resume(k)
  \/ PoolReturn

SpecPool == InitPool /\ [][NextPool]_vars

(* ---------------- the worker pool and a caller that leaves ------------ *)

\* The caller disconnects while mapWithConcurrency runs.  Neither POST nor
\* mapWithConcurrency reads request.signal, and the ReadableStream of the
\* streaming POST has no cancel callback: nothing of the run changes.
RequestAborted ==
  /\ pc = "pool"
  /\ ~aborted
  /\ aborted' = TRUE
  /\ UNCHANGED <<runVars, poolVars, logVars, retryVars, scoreVars,
                 extractVars, fnVars>>

NextAbort ==
  \/ PoolStartThrows
  \/ PoolStart
  \/ \E k \in Workers : AfterSleep(k)
  \/ \E k \in Workers : SemanticScholarDone(k)
  \/ \E k \in Workers : ArxivDone(k)
  \/ \E k \in Workers : Resume(k)
  \/ PoolReturn
  \/ RequestAborted

SpecAbort == InitPool /\ [][NextAbort]_vars

(* ------------------------------- POST --------------------------------- *)

DeepSeekRetries == 3
\* Math.min(1000 * Math.pow(2, attempt), 5000)
DeepSeekBackoffBaseMs == 1000
DeepSeekBackoffCapMs == 5000
BATCH_SIZE == 100
DefaultConcurrency == 2
ConcurrencyCap == 5
StreamDefaultConcurrency == 4
StreamConcurrencyCap == 20

\* a number as Number(...) yields it: NaN, or a finite value
NaN == [finite |-> FALSE, value |-> Zero]
Num(q) == [finite |-> TRUE, value |-> q]

\* formData.get("min_score"): a string, or null when the field is absent
NoField == [isString |-> FALSE, number |-> NaN]
Field(num) == [isString |-> TRUE, number |-> num]

\* typeof minScoreRaw === "string" ? Number(minScoreRaw) : 0.5
minScoreOf(field) == IF field.isString THEN field.number ELSE Num(Half)

\* a faulty validation: every number is let through
minScoreAcceptedAny(num) == TRUE

\* !(!Number.isFinite(minScore) || minScore < 0 || minScore > 1)
minScoreAccepted(num) ==
  num.finite /\ RGeq(num.value, Zero) /\ RGeq(One, num.value)

MinScoreFields ==
  {NoField, Field(NaN), Field(Num([n |-> -1, d |-> 1])), Field(Num(Frac(3, 2)))}
  \cup {Field(Num(q)) : q \in MinScores}

\* Number(process.env.VERIFY_LOOKUP_CONCURRENCY ?? dflt)
envConcurrencyOf(env, dflt) == IF env.isString THEN env.number ELSE Num(Frac(dflt, 1))

\* Number.isFinite(envConcurrency) && envConcurrency > 0
\*   ? Math.min(envConcurrency, cap) : dflt
resolveConcurrency(env, cap, dflt) ==
  LET e == envConcurrencyOf(env, dflt)
  IN IF e.finite /\ RGt(e.value, Zero)
     THEN IF RGeq(e.value, Frac(cap, 1)) THEN Frac(cap, 1) ELSE e.value
     ELSE Frac(dflt, 1)

EnvConcurrencies ==
  {NoField, Field(NaN), Field(Num(Zero)), Field(Num(Half)), Field(Num(One)),
   Field(Num(Frac(25, 1)))}

CONCURRENCY(env, kind) ==
  IF kind = "stream"
  THEN resolveConcurrency(env, StreamConcurrencyCap, StreamDefaultConcurrency)
  ELSE resolveConcurrency(env, ConcurrencyCap, DefaultConcurrency)

\* referencesSection as findReferencesSection returns it
RefSections == {<<>>, <<" ", " ">>, <<"r">>}

\* an element of the citations array in DeepSeek's JSON, before the schema
\* has seen it: either key may be absent
RawCite(hasT, t, hasA, as) ==
  [hasTitle |-> hasT, title |-> t, hasAuthors |-> hasA, authors |-> as]

\* what DeepSeek's JSON may list as citations: the pool, "b" without an
\* authors key, an entry whose title is the empty string and an entry
\* without a title key
RawPool ==
  {RawCite(TRUE, c.title, TRUE, c.authors) : c \in CitationPool}
  \cup {RawCite(TRUE, <<"b">>, FALSE, <<>>),
        RawCite(TRUE, <<>>, TRUE, <<>>),
        RawCite(FALSE, <<>>, TRUE, << <<"x">> >>)}

\* CitationSchema on one element: title: z.string().min(1)
CitationSchemaAccepts(e) == e.hasTitle /\ Len(e.title) >= 1

\* CitationSchema's output for an accepted element:
\* authors: z.array(z.string()).default([])
CitationSchemaOutput(e) ==
  Cite(e.title, IF e.hasAuthors THEN e.authors ELSE <<>>)

\* the lists DeepSeek answers with: at most MaxRunCites elements the schema
\* accepts, and at most one more element among them
RawLists ==
  {l \in UNION {[1..n -> RawPool] : n \in 0..(MaxRunCites + 1)} :
     Cardinality({i \in DOMAIN l : CitationSchemaAccepts(l[i])}) <= MaxRunCites}

\* the object callDeepSeekJSON returns: wellTyped is FALSE when citations is
\* not an array of objects
Raw(typed, cands) == [wellTyped |-> typed, citations |-> cands]

\* the statuses DeepSeek answers with; 0 stands for a fetch that threw
\* (network error, or the abort timer fired)
DeepSeekStatuses == {0, 200, 401, 503}

\* One attempt of callDeepSeekJSON.  The try block throws when the fetch
\* threw and when the body is empty, is not JSON, carries no
\* message.content or content that is not an object; the status of the
\* response is never read.  A body with content comes with status 200.
DeepSeekOutcomes ==
  {[status |-> st, threw |-> TRUE, value |-> Raw(FALSE, <<>>)] :
     st \in DeepSeekStatuses}
  \cup {[status |-> 200, threw |-> FALSE, value |-> Raw(FALSE, <<>>)]}
  \cup {[status |-> 200, threw |-> FALSE, value |-> Raw(TRUE, l)] :
          l \in RawLists}

\* a faulty loop: it sleeps and tries again after the last attempt as well
deepSeekTriesAgainInclusive(attempt) == attempt <= DeepSeekRetries - 1

\* the loop of callDeepSeekJSON after attempt number `attempt` threw: it
\* sleeps and tries again unless that was the last attempt
deepSeekTriesAgain(attempt) == attempt < DeepSeekRetries - 1

\* the sleep between two attempts of callDeepSeekJSON
deepSeekBackoffMs(attempt) ==
  Min(DeepSeekBackoffBaseMs * Pow2(attempt), DeepSeekBackoffCapMs)

\* what callDeepSeekJSON's loop has done with one attempt: the status it
\* met, whether the attempt returned, the object it returned and the
\* milliseconds slept after it (0: no sleep)
Attempt(out, slept) ==
  [status |-> out.status, ok |-> ~out.threw, raw |-> out.value, wait |-> slept]

\* ExtractedCitationsSchema.parse(raw): one element that CitationSchema
\* rejects fails the whole parse
ExtractedCitationsSchemaParse(obj) ==
  IF ~obj.wellTyped \/ \E i \in DOMAIN obj.citations :
                         ~CitationSchemaAccepts(obj.citations[i])
  THEN [threw |-> TRUE, citations |-> <<>>]
  ELSE [threw |-> FALSE,
        citations |-> [i \in DOMAIN obj.citations |->
                         CitationSchemaOutput(obj.citations[i])]]

\* !referencesSection.trim()
sectionMissing(text) == Len(trim(text)) = 0

\* a faulty check: the empty list is let through
citationsMissingNever(n) == FALSE

\* !extracted.citations.length
citationsMissing(n) == n = 0

\* a faulty count: the filter is left out
verifiedCountAll(vs) == Len(vs)

\* verifications.filter(v => v.status === "verified").length
verifiedCount(vs) == Cardinality({i \in DOMAIN vs : vs[i].status = "verified"})

\* verifications.length - verifiedCount
unverifiedCount(vs) == Len(vs) - verifiedCount(vs)

\* the citations rows built from the verifications
rowsOf(vs) ==
  [i \in DOMAIN vs |->
     [title |-> vs[i].ref.title, authors |-> vs[i].ref.authors,
      verification_status |-> vs[i].status, source_url |-> vs[i].sourceUrl,
      score |-> vs[i].score]]

\* papers.update({ status: "completed", verified_citations, ... })
\* a faulty update: the status is set and the counts are left as stored
completedStatusOnly(rec, vs) == [rec EXCEPT !.status = "completed"]

completed(rec, vs) ==
  [rec EXCEPT !.status = "completed", !.verified = verifiedCount(vs),
              !.unverified = unverifiedCount(vs)]

poolUnchanged == UNCHANGED <<poolVars, logVars, unitVars>>

\* how an awaited call to supabase settles: with data, with an error in
\* its result, or by throwing, which POST's catch block reports
DbOutcomes == {"ok", "error", "throws"}

\* the end of the handler in its catch block
Caught(evs, message) == Terminal(evs, "error", 500, message)

\* createClient() and supabase.auth.getUser(); "error" stands for a
\* result without a user
Auth ==
  /\ pc = "auth"
  /\ \E got \in DbOutcomes :
       IF got = "throws" THEN Caught(events, "createClient failed")
       ELSE IF got = "error" THEN Terminal(events, "error", 401, "Unauthorized")
       ELSE /\ pc' = "form"
            /\ UNCHANGED <<events, closed, response>>
  /\ UNCHANGED <<variant, debug, minScoreRaw, minScore, items, concurrency, paper, rows,
                 verifications, section, dsLog, schema, report>>
  /\ poolUnchanged

\* request.formData() and the two validations
Form ==
  /\ pc = "form"
  /\ \E readable \in BOOLEAN, fileOk \in BOOLEAN, field \in MinScoreFields :
       LET num == minScoreOf(field)
       IN IF ~readable
          THEN /\ Caught(events, "Failed to parse body as FormData")
               /\ UNCHANGED <<minScoreRaw, minScore>>
          ELSE IF ~fileOk
          THEN /\ Terminal(events, "error", 400, "Please upload a valid PDF file")
               /\ minScoreRaw' = field
               /\ UNCHANGED minScore
          ELSE IF ~minScoreAccepted(num)
          THEN /\ Terminal(events, "error", 400,
                           "min_score must be between 0 and 1")
               /\ minScoreRaw' = field
               /\ UNCHANGED minScore
          ELSE /\ minScoreRaw' = field
               /\ minScore' = num.value
               /\ pc' = "pdf"
               /\ events' = progress(events, closed, "Extracting PDF text")
               /\ UNCHANGED <<closed, response>>
  /\ UNCHANGED <<variant, debug, items, concurrency, paper, rows,
                 verifications, section, dsLog, schema, report>>
  /\ poolUnchanged

\* extractText, findReferencesSection and the entry of callDeepSeekJSON up
\* to its first fetch
Pdf ==
  /\ pc = "pdf"
  /\ \E parsed \in BOOLEAN, text \in RefSections, apiKey \in BOOLEAN :
       IF ~parsed
       THEN /\ Terminal(events, "error", 400, "Failed to parse PDF file")
            /\ UNCHANGED section
       ELSE LET e1 == progress(events, closed, "Finding references section")
                e2 == progress(e1, closed, "Extracting citations with DeepSeek")
            IN /\ section' = IF sectionMissing(text) THEN "blank" ELSE "text"
               /\ IF sectionMissing(text)
                  THEN Terminal(e1, "error", 400,
                                "Could not find references section in the PDF")
                  ELSE IF ~apiKey
                  THEN Caught(e2, "Missing DEEPSEEK_API_KEY")
                  ELSE /\ pc' = "deepseek"
                       /\ events' = e2
                       /\ UNCHANGED <<closed, response>>
  /\ UNCHANGED <<variant, debug, minScoreRaw, minScore, items, concurrency, paper, rows,
                 verifications, dsLog, schema, report>>
  /\ poolUnchanged

\* One attempt of callDeepSeekJSON settles.  When it returns, POST parses
\* the object with the schema, rejects an empty list and otherwise issues
\* the insert of the paper.
DeepSeekAttempt ==
  /\ pc = "deepseek"
  /\ \E out \in DeepSeekOutcomes :
       IF out.threw
       THEN /\ dsLog' = Append(dsLog,
                               Attempt(out, IF deepSeekTriesAgain(Len(dsLog))
                                            THEN deepSeekBackoffMs(Len(dsLog))
                                            ELSE 0))
            /\ IF deepSeekTriesAgain(Len(dsLog))
               THEN /\ pc' = "deepseek"
                    /\ UNCHANGED <<events, closed, response>>
               ELSE Caught(events, "DeepSeek attempt failed")
            /\ UNCHANGED <<items, schema>>
       ELSE LET extracted == ExtractedCitationsSchemaParse(out.value)
            IN /\ dsLog' = Append(dsLog, Attempt(out, 0))
               /\ IF extracted.threw
                  THEN /\ schema' = "threw"
                       /\ Caught(events, "ZodError")
                       /\ UNCHANGED items
                  ELSE /\ schema' = "parsed"
                       /\ items' = extracted.citations
                       /\ IF citationsMissing(Len(extracted.citations))
                          THEN Terminal(events, "error", 400,
                                        "Could not extract citations from the PDF")
                          ELSE /\ pc' = "insertPaper"
                               /\ events' = progress(events, closed,
                                                     "Creating paper record")
                               /\ UNCHANGED <<closed, response>>
  /\ UNCHANGED <<variant, debug, minScoreRaw, minScore, concurrency, paper, rows,
                 verifications, section, report>>
  /\ poolUnchanged

\* the insert into papers settles
InsertPaper ==
  /\ pc = "insertPaper"
  /\ \E got \in DbOutcomes :
       IF got = "throws"
       THEN /\ Caught(events, "fetch failed")
            /\ UNCHANGED paper
       ELSE IF got = "error"
       THEN /\ Terminal(events, "error", 500, "Failed to save paper")
            /\ UNCHANGED paper
       ELSE /\ paper' = [stored |-> TRUE, status |-> "processing",
                         total |-> Len(items), verified |-> 0, unverified |-> 0]
            /\ pc' = "verify"
            /\ events' = progress(events, closed, "Verifying citations")
            /\ UNCHANGED <<closed, response>>
  /\ UNCHANGED <<variant, debug, minScoreRaw, minScore, items, concurrency, rows,
                 verifications, section, dsLog, schema, report>>
  /\ poolUnchanged

\* the counts and the rows are computed; the first batch insert is issued
Aggregate ==
  /\ pc = "aggregate"
  /\ pc' = "insert"
  /\ events' = progress(events, closed, "Saving citation results")
  /\ UNCHANGED <<variant, debug, minScoreRaw, minScore, items, concurrency, closed,
                 response, paper, rows, verifications, section, dsLog, schema,
                 report>>
  /\ poolUnchanged

\* one batch insert into citations settles
InsertChunk ==
  /\ pc = "insert"
  /\ LET all == rowsOf(verifications)
         i == Len(rows)
         chunk == SubSeq(all, i + 1, Min(i + BATCH_SIZE, Len(all)))
     IN \E got \in DbOutcomes :
          IF got = "throws"
          THEN /\ Caught(events, "fetch failed")
               /\ UNCHANGED rows
          ELSE /\ UNCHANGED <<events, closed, response>>
               /\ IF got = "ok"
                  THEN /\ rows' = rows \o chunk
                       /\ pc' = IF i + BATCH_SIZE < Len(all) THEN "insert"
                                ELSE "update"
                  ELSE /\ pc' = "updateAfterError"
                       /\ UNCHANGED rows
  /\ UNCHANGED <<variant, debug, minScoreRaw, minScore, items, concurrency, paper,
                 verifications, section, dsLog, schema, report>>
  /\ poolUnchanged

\* chunkErr: the update of the paper settles and the error is reported
UpdateAfterError ==
  /\ pc = "updateAfterError"
  /\ \E got \in DbOutcomes :
       /\ paper' = IF got = "ok" THEN completed(paper, verifications) ELSE paper
       /\ IF got = "throws" THEN Caught(events, "fetch failed")
          ELSE Terminal(events, "error", 500,
                        "Saved paper, but failed to save citations")
  /\ UNCHANGED <<variant, debug, minScoreRaw, minScore, items, concurrency, rows,
                 verifications, section, dsLog, schema, report>>
  /\ poolUnchanged

\* the final update of the paper settles and the report is returned
Update ==
  /\ pc = "update"
  /\ \E got \in DbOutcomes :
       /\ paper' = IF got = "ok" THEN completed(paper, verifications) ELSE paper
       /\ IF got = "throws"
          THEN /\ Caught(events, "fetch failed")
               /\ UNCHANGED report
          ELSE /\ report' = [sent |-> TRUE, total |-> Len(items),
                             verified |-> verifiedCount(verifications),
                             unverified |-> unverifiedCount(verifications),
                             citations |-> [i \in DOMAIN rows |->
                                              verifications[i]]]
               /\ Terminal(events, "result", 200, "report")
  /\ UNCHANGED <<variant, debug, minScoreRaw, minScore, items, concurrency, rows,
                 verifications, section, dsLog, schema>>
  /\ poolUnchanged

\* the handler is entered; the streaming POST has returned its Response
Init ==
  /\ pc = "auth"
  /\ variant \in {"json", "stream"}
  /\ debug \in BOOLEAN
  /\ minScoreRaw = NoField
  /\ minScore = Half
  /\ items = <<>>
  /\ concurrency \in {CONCURRENCY(e, variant) : e \in EnvConcurrencies}
  /\ events = <<>>
  /\ closed = FALSE
  /\ response = IF variant = "stream" THEN StreamResponse ELSE NoResponse
  /\ paper = NoPaper
  /\ rows = <<>>
  /\ verifications = <<>>
  /\ section = "unset"
  /\ dsLog = <<>>
  /\ schema = "unset"
  /\ report = NoReport
  /\ nextIndex = 0
  /\ results = <<>>
  /\ cache = <<>>
  /\ wpc = <<>>
  /\ widx = <<>>
  /\ wss = <<>>
  /\ wret = <<>>
  /\ returned = <<>>
  /\ calls = <<>>
  /\ claimedBy = <<>>
  /\ writes = <<>>
  /\ looked = <<>>
  /\ lookupLog = <<>>
  /\ rfPc = "idle"
  /\ rfLog = <<>>
  /\ rfDone = <<>>
  /\ rfRet = Returns(NoItem)
  /\ scPc = "idle"
  /\ scArgs = [c |-> Cite(<<>>, <<>>), ss |-> NoItem, arxiv |-> NoItem]
  /\ scOut = NoResult
  /\ aborted = FALSE
  /\ ExtractIdle
  /\ FnIdle

Next ==
  \/ Auth
  \/ Form
  \/ Pdf
  \/ DeepSeekAttempt
  \/ InsertPaper
  \/ PoolStartThrows
  \/ PoolStart
  \/ \E k \in Workers : AfterSleep(k)
  \/ \E k \in Workers : SemanticScholarDone(k)
  \/ \E k \in Workers : ArxivDone(k)
  \/ \E k \in Workers : Resume(k)
  \/ PoolReturn
  \/ Aggregate
  \/ InsertChunk
  \/ UpdateAfterError
  \/ Update

Spec == Init /\ [][Next]_vars

(* ------------- one lookup call, followed fetch by fetch ---------------- *)

\* a faulty loop: every response that is not ok is retried
retryStepAnyError(o, i, attempts) ==
  IF o.kind = "response" /\ ResOk(o.status) THEN "return"
  ELSE IF i < attempts - 1 THEN "sleep"
  ELSE IF o.kind = "response" THEN "return" ELSE "throw"

\* a faulty loop: the backoff sleep is taken after the last attempt as well
retryStepSleepsLast(o, i, attempts) ==
  IF o.kind = "response"
  THEN IF IsRetryStatus(o.status) /\ i < attempts THEN "sleep" ELSE "return"
  ELSE IF i < attempts THEN "sleep" ELSE "throw"

\* a faulty loop: a fetch that threw is not tried again
retryStepGivesUpOnError(o, i, attempts) ==
  IF o.kind = "response"
  THEN IF IsRetryStatus(o.status) /\ i < attempts - 1 THEN "sleep" ELSE "return"
  ELSE "throw"

\* What one round of retryFetch's loop does with the outcome o of the fetch
\* of attempt i: sleep and go round again, return the response, or throw.
retryStep(o, i, attempts) ==
  IF o.kind = "response"
  THEN IF IsRetryStatus(o.status) /\ i < attempts - 1 THEN "sleep" ELSE "return"
  ELSE IF i < attempts - 1 THEN "sleep" ELSE "throw"

\* the citation semanticScholarLookup is called for
LookedUp == Cite(<<"a", "b">>, << <<"x">> >>)

\* what the body of a 200 response may be: unreadable, an empty list, or a
\* list with one candidate
RetryBodies ==
  {[json |-> FALSE, data |-> <<>>], [json |-> TRUE, data |-> <<>>],
   [json |-> TRUE, data |-> << Item(<<"a", "b">>, << <<"x">> >>, "p1") >>]}

\* the sleeps of one retryFetch call, in order
WaitsOf(log) ==
  LET slept == SelectSeq(log, LAMBDA e : e.wait > 0)
  IN [j \in DOMAIN slept |-> slept[j].wait]

\* The fetch of the current attempt settles.  retryFetch sleeps, or it
\* returns or throws to the strategy that called it; the strategy then
\* returns its candidate, or falls through to the next strategy, or, after
\* strategy 2, semanticScholarLookup returns.
RetryFetchSettles ==
  /\ rfPc = "fetch"
  /\ \E o \in FetchOutcomes, body \in RetryBodies :
       LET i == Len(rfLog)
           step == retryStep(o, i, RetryAttempts)
       IN IF step = "sleep"
          THEN /\ rfLog' = Append(rfLog, [outcome |-> o, wait |-> backoffMs(i)])
               /\ rfPc' = "sleep"
               /\ UNCHANGED <<rfDone, rfRet>>
          ELSE LET res == [threw |-> step = "throw", status |-> o.status]
                   ok == step = "return" /\ ResOk(o.status)
                   ans == Answer(res, ok /\ body.json,
                                 IF ok THEN body.data ELSE <<>>)
                   done == Append(rfDone,
                                  [ans |-> ans, fetches |-> i + 1,
                                   waits |-> WaitsOf(rfLog)])
                   try == IF Len(rfDone) = 0 THEN ssMatchTry(ans)
                          ELSE ssSearchTry(LookedUp.title, ans)
               IN /\ rfDone' = done
                  /\ IF (~try.threw /\ try.found) \/ Len(done) = 2
                     THEN /\ rfPc' = "returned"
                          /\ rfLog' = Append(rfLog, [outcome |-> o, wait |-> 0])
                          /\ rfRet' = semanticScholarLookup(
                                        LookedUp.title, LookedUp.authors,
                                        [s1 |-> done[1].ans,
                                         s2 |-> done[Len(done)].ans])
                     ELSE /\ rfPc' = "fetch"
                          /\ rfLog' = <<>>
                          /\ UNCHANGED rfRet
  /\ UNCHANGED <<runVars, poolVars, logVars, scoreVars, aborted, extractVars, fnVars>>

\* the backoff sleep is over: the loop goes round
RetrySleepDone ==
  /\ rfPc = "sleep"
  /\ rfPc' = "fetch"
  /\ UNCHANGED <<rfLog, rfDone, rfRet>>
  /\ UNCHANGED <<runVars, poolVars, logVars, scoreVars, aborted, extractVars, fnVars>>

\* semanticScholarLookup has been called for LookedUp and strategy 1 has
\* issued its first fetch
InitRetry ==
  /\ pc = "verify"
  /\ variant = "json"
  /\ debug = FALSE
  /\ minScoreRaw = NoField
  /\ minScore = Half
  /\ items = <<LookedUp>>
  /\ concurrency = One
  /\ events = <<>>
  /\ closed = FALSE
  /\ response = NoResponse
  /\ paper = NoPaper
  /\ rows = <<>>
  /\ verifications = <<>>
  /\ section = "text"
  /\ dsLog = <<>>
  /\ schema = "parsed"
  /\ report = NoReport
  /\ nextIndex = 0
  /\ results = <<>>
  /\ cache = <<>>
  /\ wpc = <<>>
  /\ widx = <<>>
  /\ wss = <<>>
  /\ wret = <<>>
  /\ returned = <<>>
  /\ calls = <<>>
  /\ claimedBy = <<>>
  /\ writes = <<>>
  /\ looked = <<>>
  /\ lookupLog = <<>>
  /\ rfPc = "fetch"
  /\ rfLog = <<>>
  /\ rfDone = <<>>
  /\ rfRet = Returns(NoItem)
  /\ scPc = "idle"
  /\ scArgs = [c |-> Cite(<<>>, <<>>), ss |-> NoItem, arxiv |-> NoItem]
  /\ scOut = NoResult
  /\ aborted = FALSE
  /\ ExtractIdle
  /\ FnIdle

NextRetry ==
  \/ RetryFetchSettles
  \/ RetrySleepDone

SpecRetry == InitRetry /\ [][NextRetry]_vars

(* ------------------- the scoring of one citation ----------------------- *)

MaxTitleLen == 3

\* the titles of at most n letters
Titles(n) == UNION {[1..k -> {"a", "b"}] : k \in 0..n}

\* the authors of a citation and of a candidate: no authors on one side,
\* one of two found, more found than cited, a name cited twice, a name
\* that normalizes to nothing, no name in common, and a name that
\* normalizes to nothing beside one that is found
AuthorCases ==
  {[ref |-> <<>>, found |-> << <<"x">> >>],
   [ref |-> << <<"x">>, <<"y">> >>, found |-> << <<"x">> >>],
   [ref |-> << <<"x">> >>, found |-> << <<"y">>, <<"x">> >>],
   [ref |-> << <<"x">>, <<"X">> >>, found |-> << <<"x">> >>],
   [ref |-> << <<"-">>, <<"y">> >>, found |-> << <<"x">> >>],
   [ref |-> << <<"x">> >>, found |-> << <<"y">> >>],
   [ref |-> << <<"-">>, <<"y">> >>, found |-> << <<"y">> >>]}

\* verifyCitation from the scores to the result object
Score ==
  /\ scPc = "called"
  /\ scPc' = "scored"
  /\ scOut' = verifyCitationResult(scArgs.c, minScore, Returns(scArgs.ss),
                                   Returns(scArgs.arxiv), debug)
  /\ UNCHANGED scArgs
  /\ UNCHANGED <<runVars, poolVars, logVars, retryVars, aborted, extractVars, fnVars>>

\* Both lookups of a citation have returned: each with a candidate or with
\* null; a candidate of Semantic Scholar may lack its title.
InitScore ==
  /\ pc = "verify"
  /\ variant = "json"
  /\ debug = FALSE
  /\ minScoreRaw = NoField
  /\ minScore = Half
  /\ items = <<>>
  /\ concurrency = One
  /\ events = <<>>
  /\ closed = FALSE
  /\ response = NoResponse
  /\ paper = NoPaper
  /\ rows = <<>>
  /\ verifications = <<>>
  /\ section = "text"
  /\ dsLog = <<>>
  /\ schema = "parsed"
  /\ report = NoReport
  /\ nextIndex = 0
  /\ results = <<>>
  /\ cache = <<>>
  /\ wpc = <<>>
  /\ widx = <<>>
  /\ wss = <<>>
  /\ wret = <<>>
  /\ returned = <<>>
  /\ calls = <<>>
  /\ claimedBy = <<>>
  /\ writes = <<>>
  /\ looked = <<>>
  /\ lookupLog = <<>>
  /\ rfPc = "idle"
  /\ rfLog = <<>>
  /\ rfDone = <<>>
  /\ rfRet = Returns(NoItem)
  /\ scPc = "called"
  /\ \E ac \in AuthorCases, t \in Titles(MaxTitleLen),
        ft \in Titles(MaxTitleLen) \cup {NoTitle},
        gt \in Titles(MaxTitleLen - 2),
        hasSS \in BOOLEAN, hasArxiv \in BOOLEAN :
       scArgs = [c |-> Cite(t, ac.ref),
                 ss |-> IF hasSS THEN Item(ft, ac.found, "p1") ELSE NoItem,
                 arxiv |-> IF hasArxiv THEN Item(gt, << <<"x">> >>, "a1")
                           ELSE NoItem]
  /\ scOut = NoResult
  /\ aborted = FALSE
  /\ ExtractIdle
  /\ FnIdle

NextScore == Score

SpecScore == InitScore /\ [][NextScore]_vars

(* ------------- chunking, extraction and deduplication ----------------- *)
(* The copy of the handler in src/app/page.tsx splits the references     *)
(* section, sends the chunks to DeepSeek one by one and deduplicates the *)
(* citations.  A line is known by its position in the section, and only  *)
(* its length matters to chunkReferencesSection.                         *)

MAX_INPUT_CHARS == 4000
OverlapLines == 5

\* referencesText.length: the lines and the newlines between them
RECURSIVE TextLength(_)
TextLength(lens) ==
  IF Len(lens) = 0 THEN 0
  ELSE IF Len(lens) = 1 THEN lens[1]
  ELSE lens[1] + 1 + TextLength(Tail(lens))

\* currentChunk.reduce((sum, l) => sum + l.length + 1, 0)
RECURSIVE ChunkSize(_, _)
ChunkSize(lens, chunk) ==
  IF Len(chunk) = 0 THEN 0
  ELSE lens[Head(chunk)] + 1 + ChunkSize(lens, Tail(chunk))

\* currentChunk.slice(-n)
LastLines(chunk, n) == SubSeq(chunk, Len(chunk) - n + 1, Len(chunk))

\* a faulty overlap: the next chunk is seeded with one line fewer
overlapOfShort(chunk) ==
  LastLines(chunk, Min(OverlapLines, Len(chunk)) - 1)

\* currentChunk.slice(-Math.min(5, currentChunk.length))
overlapOf(chunk) == LastLines(chunk, Min(OverlapLines, Len(chunk)))

\* the for loop of chunkReferencesSection from line i on
RECURSIVE chunkLoop(_, _, _, _, _)
chunkLoop(lens, i, chunks, currentChunk, currentSize) ==
  IF i > Len(lens)
  THEN IF Len(currentChunk) > 0 THEN Append(chunks, currentChunk)
       ELSE chunks
  ELSE LET lineSize == lens[i] + 1
           closes == currentSize + lineSize > MAX_INPUT_CHARS
                     /\ Len(currentChunk) > 0
           seed == IF closes THEN overlapOf(currentChunk)
                   ELSE currentChunk
           seedSize == IF closes THEN ChunkSize(lens, seed)
                       ELSE currentSize
       IN chunkLoop(lens, i + 1,
                    IF closes THEN Append(chunks, currentChunk)
                    ELSE chunks,
                    Append(seed, i), seedSize + lineSize)

chunkReferencesSection(lens) ==
  IF TextLength(lens) <= MAX_INPUT_CHARS
  THEN << [k \in 1..Len(lens) |-> k] >>
  ELSE chunkLoop(lens, 1, <<>>, <<>>, 0)

\* a faulty deduplication: titles are compared as written
RECURSIVE dedupLoopRaw(_, _, _)
dedupLoopRaw(cits, seen, unique) ==
  IF Len(cits) = 0 THEN unique
  ELSE LET cit == Head(cits)
           normalizedTitle == cit.title
       IN IF Len(normalizedTitle) = 0 \/ normalizedTitle \in seen
          THEN dedupLoopRaw(Tail(cits), seen, unique)
          ELSE dedupLoopRaw(Tail(cits), seen \cup {normalizedTitle},
                            Append(unique, cit))

\* the for loop of deduplicateCitations
RECURSIVE dedupLoop(_, _, _)
dedupLoop(cits, seen, unique) ==
  IF Len(cits) = 0 THEN unique
  ELSE LET cit == Head(cits)
           normalizedTitle == normalize(cit.title)
       IN IF Len(normalizedTitle) = 0 \/ normalizedTitle \in seen
          THEN dedupLoop(Tail(cits), seen, unique)
          ELSE dedupLoop(Tail(cits), seen \cup {normalizedTitle},
                         Append(unique, cit))

deduplicateCitationsRaw(citations) == dedupLoopRaw(citations, {}, <<>>)

deduplicateCitations(citations) == dedupLoop(citations, {}, <<>>)

\* the sections of the small and of the large input set: line lengths
LineLengths == {499, 1999, 4500}
MaxLines == 9
Sections == UNION {[1..n -> LineLengths] : n \in 1..MaxLines}
FewSections == {<<499>>, <<3999, 499>>}

\* what ExtractedCitationsSchema.parse yields for one chunk
MaxPerChunk == 3
ChunkTitles == {<<"A">>, <<"a">>, <<"B">>, <<"?">>}
ChunkCitations ==
  UNION {[1..n -> {Cite(t, <<>>) : t \in ChunkTitles}] : n \in 0..MaxPerChunk}
ChunkPaperTitles == {<<>>, <<"X">>}

\* const chunks = chunkReferencesSection(referencesSection)
ChunkSection ==
  /\ exPc = "called"
  /\ exChunks' = chunkReferencesSection(exLines)
  /\ exPc' = "chunked"
  /\ UNCHANGED <<exLines, exAll, exTitle, exOut>>
  /\ UNCHANGED <<runVars, poolVars, logVars, retryVars, scoreVars, aborted,
                 fnVars>>

\* one round of the loop over the chunks: callDeepSeekJSON and the schema
\* return for chunk i, its citations are pushed; after the last chunk the
\* citations are deduplicated and returned
ExtractChunk ==
  /\ exPc = "chunked"
  /\ LET i == exAll.i + 1
     IN \E cits \in ChunkCitations, pt \in ChunkPaperTitles :
          LET all == [i |-> i, list |-> exAll.list \o cits]
          IN /\ exAll' = all
             /\ exTitle' = IF i = 1 /\ Len(pt) > 0 THEN pt ELSE exTitle
             /\ IF i = Len(exChunks)
                THEN /\ exOut' = deduplicateCitations(all.list)
                     /\ exPc' = "returned"
                ELSE UNCHANGED <<exOut, exPc>>
  /\ UNCHANGED <<exLines, exChunks>>
  /\ UNCHANGED <<runVars, poolVars, logVars, retryVars, scoreVars, aborted,
                 fnVars>>

\* callDeepSeekJSON or ExtractedCitationsSchema.parse throws for a chunk
ExtractThrows ==
  /\ exPc = "chunked"
  /\ exPc' = "threw"
  /\ UNCHANGED <<exLines, exChunks, exAll, exTitle, exOut>>
  /\ UNCHANGED <<runVars, poolVars, logVars, retryVars, scoreVars, aborted,
                 fnVars>>

\* no handler is running: the state around a function followed on its own
HandlerIdle ==
  /\ pc = "verify"
  /\ variant = "json"
  /\ debug = FALSE
  /\ minScoreRaw = NoField
  /\ minScore = Half
  /\ items = <<>>
  /\ concurrency = One
  /\ events = <<>>
  /\ closed = FALSE
  /\ response = NoResponse
  /\ paper = NoPaper
  /\ rows = <<>>
  /\ verifications = <<>>
  /\ section = "text"
  /\ dsLog = <<>>
  /\ schema = "unset"
  /\ report = NoReport
  /\ nextIndex = 0
  /\ results = <<>>
  /\ cache = <<>>
  /\ wpc = <<>>
  /\ widx = <<>>
  /\ wss = <<>>
  /\ wret = <<>>
  /\ returned = <<>>
  /\ calls = <<>>
  /\ claimedBy = <<>>
  /\ writes = <<>>
  /\ looked = <<>>
  /\ lookupLog = <<>>
  /\ rfPc = "idle"
  /\ rfLog = <<>>
  /\ rfDone = <<>>
  /\ rfRet = Returns(NoItem)
  /\ scPc = "idle"
  /\ scArgs = [c |-> Cite(<<>>, <<>>), ss |-> NoItem, arxiv |-> NoItem]
  /\ scOut = NoResult
  /\ aborted = FALSE

\* extractCitationsFromReferences is called with a section
InitExtract ==
  /\ HandlerIdle
  /\ exPc = "called"
  /\ exLines \in FewSections
  /\ exChunks = <<>>
  /\ exAll = [i |-> 0, list |-> <<>>]
  /\ exTitle = <<>>
  /\ exOut = <<>>
  /\ FnIdle

NextExtract ==
  \/ ChunkSection
  \/ ExtractChunk
  \/ ExtractThrows

SpecExtract == InitExtract /\ [][NextExtract]_vars

\* chunkReferencesSection is called with a section
InitChunk ==
  /\ HandlerIdle
  /\ exPc = "called"
  /\ exLines \in Sections
  /\ exChunks = <<>>
  /\ exAll = [i |-> 0, list |-> <<>>]
  /\ exTitle = <<>>
  /\ exOut = <<>>
  /\ FnIdle

NextChunk == ChunkSection

SpecChunk == InitChunk /\ [][NextChunk]_vars

(* ------------------- the string functions on their own ---------------- *)

\* the strings the similarity is computed for
MaxStringLen == 3
Strings(n) == UNION {[1..k -> {"a", "b", "c"}] : k \in 0..n}

\* sequenceMatcherRatio is called with a and b, with b and a, and with
\* each of them twice
Ratio ==
  /\ fnPc = "called"
  /\ fnOut' = [ab |-> sequenceMatcherRatio(fnArgs.a, fnArgs.b),
               ba |-> sequenceMatcherRatio(fnArgs.b, fnArgs.a),
               aa |-> sequenceMatcherRatio(fnArgs.a, fnArgs.a),
               bb |-> sequenceMatcherRatio(fnArgs.b, fnArgs.b)]
  /\ fnPc' = "returned"
  /\ UNCHANGED fnArgs
  /\ UNCHANGED <<runVars, poolVars, logVars, retryVars, scoreVars, aborted,
                 extractVars>>

InitRatio ==
  /\ HandlerIdle
  /\ ExtractIdle
  /\ fnPc = "called"
  /\ fnArgs \in [a : Strings(MaxStringLen), b : Strings(MaxStringLen)]
  /\ fnOut = <<>>

NextRatio == Ratio

SpecRatio == InitRatio /\ [][NextRatio]_vars

\* the strings normalize is called with: an upper-case and a lower-case
\* letter, a digit, the underscore, a punctuation mark, a blank and a tab
MaxRawLen == 4
RawChars == {"A", "a", "1", "_", "?", " ", "\t"}
RawStrings(n) == UNION {[1..k -> RawChars] : k \in 0..n}

\* normalize is called with x and then with what it returned
Normalize ==
  /\ fnPc = "called"
  /\ fnOut' = [once |-> normalize(fnArgs.x),
               twice |-> normalize(normalize(fnArgs.x))]
  /\ fnPc' = "returned"
  /\ UNCHANGED fnArgs
  /\ UNCHANGED <<runVars, poolVars, logVars, retryVars, scoreVars, aborted,
                 extractVars>>

InitNormalize ==
  /\ HandlerIdle
  /\ ExtractIdle
  /\ fnPc = "called"
  /\ fnArgs \in [x : RawStrings(MaxRawLen)]
  /\ fnOut = <<>>

NextNormalize == Normalize

SpecNormalize == InitNormalize /\ [][NextNormalize]_vars

(* ------------------------ findReferencesSection ----------------------- *)

\* HEADING_RE = /^\s*(references|bibliography|works cited)\s*$/i
HeadingWords ==
  {<<"r", "e", "f", "e", "r", "e", "n", "c", "e", "s">>,
   <<"b", "i", "b", "l", "i", "o", "g", "r", "a", "p", "h", "y">>,
   <<"w", "o", "r", "k", "s", " ", "c", "i", "t", "e", "d">>}
HEADING_RE(str) == LowerAll(trim(str)) \in HeadingWords

STOP_HEADINGS ==
  {<<"a", "p", "p", "e", "n", "d", "i", "x">>,
   <<"a", "c", "k", "n", "o", "w", "l", "e", "d", "g", "m", "e", "n", "t", "s">>,
   <<"a", "c", "k", "n", "o", "w", "l", "e", "d", "g", "e", "m", "e", "n", "t", "s">>,
   <<"s", "u", "p", "p", "l", "e", "m", "e", "n", "t", "a", "r", "y">>,
   <<"s", "u", "p", "p", "l", "e", "m", "e", "n", "t", "a", "l">>,
   <<"a", "l", "g", "o", "r", "i", "t", "h", "m">>,
   <<"p", "r", "o", "o", "f">>,
   <<"p", "r", "o", "o", "f", "s">>}

\* STOP_LINE_RE = /^(algorithm|figure|table)\s+\d+/i
StopLineWords ==
  {<<"a", "l", "g", "o", "r", "i", "t", "h", "m">>,
   <<"f", "i", "g", "u", "r", "e">>,
   <<"t", "a", "b", "l", "e">>}
STOP_LINE_RE(str) ==
  \E w \in StopLineWords :
    /\ Len(str) >= Len(w) + 2
    /\ LowerAll(SubSeq(str, 1, Len(w))) = w
    /\ IsSpace(str[Len(w) + 1])
    /\ \E k \in (Len(w) + 2)..Len(str) :
         /\ str[k] \in Digit
         /\ \A j \in (Len(w) + 1)..(k - 1) : IsSpace(str[j])

\* YEAR_RE = /\b(19|20)\d{2}\b/
YEAR_RE(str) ==
  \E q \in 1..(Len(str) - 3) :
    /\ SubSeq(str, q, q + 1) \in {<<"1", "9">>, <<"2", "0">>}
    /\ str[q + 2] \in Digit
    /\ str[q + 3] \in Digit
    /\ q = 1 \/ ~IsWord(str[q - 1])
    /\ q + 3 = Len(str) \/ ~IsWord(str[q + 4])

ShortHeadingLen == 40

\* a faulty stop test: a year does not keep a short upper-case line
stopsAtYearBlind(line) ==
  LET stripped == trim(line)
  IN /\ Len(stripped) > 0
     /\ \/ LowerAll(stripped) \in STOP_HEADINGS
        \/ STOP_LINE_RE(stripped)
        \/ /\ Len(stripped) <= ShortHeadingLen
           /\ stripped = UpperAll(stripped)

\* the three tests that break the collecting loop at a non-blank line
stopsAt(line) ==
  LET stripped == trim(line)
  IN /\ Len(stripped) > 0
     /\ \/ LowerAll(stripped) \in STOP_HEADINGS
        \/ STOP_LINE_RE(stripped)
        \/ /\ Len(stripped) <= ShortHeadingLen
           /\ stripped = UpperAll(stripped)
           /\ ~YEAR_RE(stripped)

\* a faulty search: the last heading starts the section
startIdxOfLast(lines) ==
  IF \E i \in DOMAIN lines : HEADING_RE(trim(lines[i]))
  THEN CHOOSE i \in DOMAIN lines :
         /\ HEADING_RE(trim(lines[i]))
         /\ \A j \in (i + 1)..Len(lines) : ~HEADING_RE(trim(lines[j]))
  ELSE 0

\* the first loop: the position of the first heading, 0 for null; the
\* section starts at the line after it
startIdxOf(lines) ==
  IF \E i \in DOMAIN lines : HEADING_RE(trim(lines[i]))
  THEN CHOOSE i \in DOMAIN lines :
         /\ HEADING_RE(trim(lines[i]))
         /\ \A j \in 1..(i - 1) : ~HEADING_RE(trim(lines[j]))
  ELSE 0

\* the second loop from line i on
RECURSIVE collectFrom(_, _)
collectFrom(lines, i) ==
  IF i > Len(lines) THEN <<>>
  ELSE IF Len(trim(lines[i])) = 0 THEN << <<>> >> \o collectFrom(lines, i + 1)
  ELSE IF stopsAt(lines[i]) THEN <<>>
  ELSE <<lines[i]>> \o collectFrom(lines, i + 1)

\* the text is a sequence of lines; `whole` says that the text itself was
\* returned
findReferencesSection(lines) ==
  LET startIdx == startIdxOf(lines)
  IN IF startIdx = 0 THEN [whole |-> TRUE, lines |-> lines]
     ELSE [whole |-> FALSE, lines |-> collectFrom(lines, startIdx + 1)]

\* n times the character ch
Rep(ch, n) == [k \in 1..n |-> ch]

\* the lines a text is made of
MaxTextLines == 3
RefLines ==
  {<<"R", "e", "f", "e", "r", "e", "n", "c", "e", "s">>,
   <<" ", "R", "E", "F", "E", "R", "E", "N", "C", "E", "S", " ">>,
   <<"R", "e", "f", "e", "r", "e", "n", "c", "e", "s", ":">>,
   <<>>,
   <<" ", "\t">>,
   <<"A", "p", "p", "e", "n", "d", "i", "x">>,
   <<"T", "a", "b", "l", "e", " ", "1">>,
   <<"[", "1", "]">>,
   <<"A", "B", " ", "2", "0", "2", "0">>,
   <<"P", "r", "o", "o", "f", " ", "o", "f", " ", "i", "t">>,
   <<"S", "m", "i", "t", "h", ",", " ", "x">>,
   Rep("X", ShortHeadingLen), Rep("X", ShortHeadingLen + 1)}
Texts(n) == UNION {[1..k -> RefLines] : k \in 1..n}

\* findReferencesSection is called with a text
FindReferences ==
  /\ fnPc = "called"
  /\ fnOut' = findReferencesSection(fnArgs.lines)
  /\ fnPc' = "returned"
  /\ UNCHANGED fnArgs
  /\ UNCHANGED <<runVars, poolVars, logVars, retryVars, scoreVars, aborted,
                 extractVars>>

InitRefs ==
  /\ HandlerIdle
  /\ ExtractIdle
  /\ fnPc = "called"
  /\ fnArgs \in [lines : Texts(MaxTextLines)]
  /\ fnOut = <<>>

NextRefs == FindReferences

SpecRefs == InitRefs /\ [][NextRefs]_vars

(* ------------------------------ safeParseJSON -------------------------- *)

\* [\u0000-\u001f] among the characters of the texts below
ControlChars == {"\t"}

\* [a-zA-Z0-9_\-]
WordChars == Upper \cup Lower \cup Digit \cup {"_", "-"}

Quote == "\""

\* the character U+0060, which a TLA+ string cannot hold
Backtick == "U+0060"

RECURSIVE skipWs(_, _)
skipWs(s, i) ==
  IF i <= Len(s) /\ s[i] \in Space THEN skipWs(s, i + 1) ELSE i

RECURSIVE wordEnd(_, _)
wordEnd(s, i) ==
  IF i <= Len(s) /\ s[i] \in WordChars THEN wordEnd(s, i + 1) ELSE i

\* JSON.parse, on texts made of brackets, braces, commas, colons, digits,
\* double-quoted strings without escapes, and white space.  A value is kept
\* as its canonical JSON text; an object keeps the last value of a repeated
\* key at the place of the first.
ParseFails == [ok |-> FALSE, val |-> <<>>, next |-> 0]

parseString(s, i) ==
  LET ends == {j \in (i + 1)..Len(s) : s[j] = Quote} IN
  IF ends = {} THEN ParseFails
  ELSE LET j == CHOOSE e \in ends : \A o \in ends : e <= o
           body == SubSeq(s, i + 1, j - 1) IN
       IF \E k \in DOMAIN body : body[k] \in ControlChars THEN ParseFails
       ELSE [ok |-> TRUE, val |-> <<Quote>> \o body \o <<Quote>>, next |-> j + 1]

parseNumber(s, i) ==
  LET e == CHOOSE j \in (i + 1)..(Len(s) + 1) :
             /\ \A k \in i..(j - 1) : s[k] \in Digit
             /\ j > Len(s) \/ s[j] \notin Digit IN
  IF s[i] = "0" /\ e > i + 1 THEN [ok |-> TRUE, val |-> <<"0">>, next |-> i + 1]
  ELSE [ok |-> TRUE, val |-> SubSeq(s, i, e - 1), next |-> e]

setMember(members, key, val) ==
  IF \E k \in DOMAIN members : members[k].key = key
    THEN [k \in DOMAIN members |->
            IF members[k].key = key THEN [key |-> key, val |-> val]
            ELSE members[k]]
    ELSE Append(members, [key |-> key, val |-> val])

RECURSIVE membersText(_, _)
membersText(members, k) ==
  IF k > Len(members) THEN <<>>
  ELSE (IF k > 1 THEN <<",">> ELSE <<>>)
         \o members[k].key \o <<":">> \o members[k].val
         \o membersText(members, k + 1)

RECURSIVE parseValue(_, _), parseElements(_, _, _), parseMembers(_, _, _)
parseValue(s, from) ==
  LET i == skipWs(s, from) IN
  IF i > Len(s) THEN ParseFails
  ELSE IF s[i] = Quote THEN parseString(s, i)
  ELSE IF s[i] \in Digit THEN parseNumber(s, i)
  ELSE IF s[i] = "[" THEN
    LET j == skipWs(s, i + 1) IN
    IF j <= Len(s) /\ s[j] = "]"
      THEN [ok |-> TRUE, val |-> <<"[", "]">>, next |-> j + 1]
      ELSE parseElements(s, i + 1, <<"[">>)
  ELSE IF s[i] = "{" THEN
    LET j == skipWs(s, i + 1) IN
    IF j <= Len(s) /\ s[j] = "}"
      THEN [ok |-> TRUE, val |-> <<"{", "}">>, next |-> j + 1]
      ELSE parseMembers(s, i + 1, <<>>)
  ELSE ParseFails

parseElements(s, from, acc) ==
  LET el == parseValue(s, from) IN
  IF ~el.ok THEN ParseFails
  ELSE LET j == skipWs(s, el.next) IN
       IF j > Len(s) THEN ParseFails
       ELSE IF s[j] = "," THEN parseElements(s, j + 1, acc \o el.val \o <<",">>)
       ELSE IF s[j] = "]"
         THEN [ok |-> TRUE, val |-> acc \o el.val \o <<"]">>, next |-> j + 1]
       ELSE ParseFails

parseMembers(s, from, members) ==
  LET i == skipWs(s, from) IN
  IF i > Len(s) \/ s[i] # Quote THEN ParseFails
  ELSE LET key == parseString(s, i) IN
  IF ~key.ok THEN ParseFails
  ELSE LET c == skipWs(s, key.next) IN
  IF c > Len(s) \/ s[c] # ":" THEN ParseFails
  ELSE LET el == parseValue(s, c + 1) IN
  IF ~el.ok THEN ParseFails
  ELSE LET j == skipWs(s, el.next)
           now == setMember(members, key.val, el.val) IN
       IF j > Len(s) THEN ParseFails
       ELSE IF s[j] = "," THEN parseMembers(s, j + 1, now)
       ELSE IF s[j] = "}"
         THEN [ok |-> TRUE,
               val |-> <<"{">> \o membersText(now, 1) \o <<"}">>,
               next |-> j + 1]
       ELSE ParseFails

\* tryParse: ok = FALSE stands for undefined
tryParse(s) ==
  LET r == parseValue(s, 1) IN
  IF r.ok /\ skipWs(s, r.next) > Len(s)
    THEN [ok |-> TRUE, val |-> r.val]
    ELSE [ok |-> FALSE, val |-> <<>>]

\* trimmed.match(fence): three backticks, an optional json in any case, white
\* space, the shortest text up to the next three backticks
IsFenceAt(s, i) ==
  i + 2 <= Len(s) /\ s[i] = Backtick /\ s[i + 1] = Backtick /\ s[i + 2] = Backtick

Fences(s) == {i \in DOMAIN s : IsFenceAt(s, i)}

fenceOf(s) ==
  LET opens == {p \in Fences(s) : \E q \in Fences(s) : q >= p + 3} IN
  IF opens = {} THEN [found |-> FALSE, body |-> <<>>]
  ELSE LET p == CHOOSE o \in opens : \A x \in opens : o <= x
           tagged == /\ p + 6 <= Len(s)
                     /\ LowerAll(SubSeq(s, p + 3, p + 6)) = <<"j", "s", "o", "n">>
           b == skipWs(s, IF tagged THEN p + 7 ELSE p + 3)
           closes == {q \in Fences(s) : q >= b}
           q == CHOOSE c \in closes : \A x \in closes : c <= x IN
       [found |-> TRUE, body |-> SubSeq(s, b, q - 1)]

\* .replace(/[\u0000-\u001f]+/g, "")
removeControl(s) == SelectSeq(s, LAMBDA ch : ch \notin ControlChars)

\* .replace(/,\s*(?=[}\]])/g, "")
RECURSIVE dropTrailingCommas(_, _)
dropTrailingCommas(s, i) ==
  IF i > Len(s) THEN <<>>
  ELSE LET j == skipWs(s, i + 1) IN
       IF s[i] = "," /\ j <= Len(s) /\ s[j] \in {"}", "]"}
         THEN dropTrailingCommas(s, j)
         ELSE <<s[i]>> \o dropTrailingCommas(s, i + 1)

\* .replace(single-quoted, double-quoted): each pair of single quotes
\* becomes a pair of double quotes
RECURSIVE singleToDouble(_, _)
singleToDouble(s, i) ==
  IF i > Len(s) THEN <<>>
  ELSE LET ends == {j \in (i + 1)..Len(s) : s[j] = "'"} IN
       IF s[i] = "'" /\ ends # {}
         THEN LET j == CHOOSE e \in ends : \A o \in ends : e <= o IN
              <<Quote>> \o SubSeq(s, i + 1, j - 1) \o <<Quote>>
                \o singleToDouble(s, j + 1)
         ELSE <<s[i]>> \o singleToDouble(s, i + 1)

\* .replace(/([\{,\s])([a-zA-Z0-9_\-]+)\s*:/g, ...): a bare word before a
\* colon is put in double quotes, the white space before the colon dropped
RECURSIVE quoteKeys(_, _)
quoteKeys(s, i) ==
  IF i > Len(s) THEN <<>>
  ELSE LET e == wordEnd(s, i + 1)
           c == skipWs(s, e) IN
       IF /\ s[i] \in {"{", ","} \cup Space
          /\ e > i + 1
          /\ c <= Len(s)
          /\ s[c] = ":"
         THEN <<s[i], Quote>> \o SubSeq(s, i + 1, e - 1) \o <<Quote, ":">>
                \o quoteKeys(s, c + 1)
         ELSE <<s[i]>> \o quoteKeys(s, i + 1)

sanitize(s) ==
  quoteKeys(singleToDouble(dropTrailingCommas(removeControl(s), 1), 1), 1)

\* candidate.match(/\{[\s\S]*\}/) and candidate.match(/\[[\s\S]*\]/):
\* from the first opening character to the last closing one
NoBlock == [found |-> FALSE, text |-> <<>>]

greedyMatch(s, open, close) ==
  LET os == {i \in DOMAIN s : s[i] = open}
      first == CHOOSE o \in os : \A x \in os : o <= x
      cs == {i \in DOMAIN s : s[i] = close /\ i > first}
      last == CHOOSE c \in cs : \A x \in cs : c >= x IN
  IF os = {} \/ cs = {} THEN NoBlock
  ELSE [found |-> TRUE, text |-> SubSeq(s, first, last)]

candidateOf(text) ==
  LET trimmed == trim(text)
      fence == fenceOf(trimmed) IN
  IF fence.found THEN trim(fence.body) ELSE trimmed

blockOf(candidate) ==
  LET objMatch == greedyMatch(candidate, "{", "}")
      arrMatch == greedyMatch(candidate, "[", "]") IN
  IF objMatch.found THEN objMatch ELSE arrMatch

safeParseJSON(text) ==
  LET candidate == candidateOf(text)
      direct == tryParse(candidate)
      afterSanitize == tryParse(sanitize(candidate))
      block == blockOf(candidate)
      final == tryParse(sanitize(block.text)) IN
  IF direct.ok THEN [threw |-> FALSE, value |-> direct.val]
  ELSE IF afterSanitize.ok THEN [threw |-> FALSE, value |-> afterSanitize.val]
  ELSE IF ~block.found THEN [threw |-> TRUE, value |-> <<>>]
  ELSE IF final.ok THEN [threw |-> FALSE, value |-> final.val]
  ELSE [threw |-> TRUE, value |-> <<>>]

\* Texts a model may answer with, put together from a few pieces
MaxPieces == 3

Pieces ==
  { <<"[", "1", "]">>,
    <<"{", Quote, "a", Quote, ":", "1", "}">>,
    <<Backtick, Backtick, Backtick, "[", "1", "]", Backtick, Backtick, Backtick>>,
    <<Backtick, Backtick, Backtick, "j", "s", "o", "n", "\t", "{", "a", ":", "1", ",", "}",
      Backtick, Backtick, Backtick>>,
    <<"{", "'", "a", "'", " ", ":", "1", ",", " ", "}">>,
    <<Quote>>, <<"x">>, <<" ">>, <<"\t">>, <<",">>, <<"[">>, <<"]">>,
    <<Backtick, Backtick, Backtick>> }

RECURSIVE Answers(_)
Answers(n) ==
  IF n = 0 THEN {<<>>}
  ELSE LET shorter == Answers(n - 1) IN
       shorter \cup {p \o t : p \in Pieces, t \in shorter}

\* safeParseJSON is called with the text of an answer
SafeParse ==
  /\ fnPc = "called"
  /\ fnOut' = safeParseJSON(fnArgs.text)
  /\ fnPc' = "returned"
  /\ UNCHANGED fnArgs
  /\ UNCHANGED <<runVars, poolVars, logVars, retryVars, scoreVars, aborted,
                 extractVars>>

InitParse ==
  /\ HandlerIdle
  /\ ExtractIdle
  /\ fnPc = "called"
  /\ fnArgs \in [text : Answers(MaxPieces)]
  /\ fnOut = <<>>

NextParse == SafeParse

SpecParse == InitParse /\ [][NextParse]_vars

(* ------------------- two citations and one cache ----------------------- *)
(* verifyCitation is called for one citation and then for another with   *)
(* the same lookupCache, and both times the lookups return the same      *)
(* candidates.                                                           *)

\* author lists that are alike once joined and normalized, and others
KeyAuthors ==
  {<<>>,
   << <<"x">>, <<"y">> >>,
   << <<"x", " ", "y">> >>,
   << <<"x", ",", "y">> >>,
   << <<"y">>, <<"x">> >>}

KeyCitations == {Cite(t, as) : t \in {<<"a">>, <<"A">>}, as \in KeyAuthors}

KeyCandidates ==
  {NoItem,
   Item(<<"a">>, << <<"x">> >>, "p1"),
   Item(<<"a">>, << <<"x", " ", "y">> >>, "p1")}

\* cache?.has(key) ? cache.get(key) : the result computed for c
verifyCitationCached(c, store, threshold, ssRet, arxRet, dbg) ==
  IF cacheKey(c) \in DOMAIN store THEN store[cacheKey(c)]
  ELSE verifyCitationResult(c, threshold, ssRet, arxRet, dbg)

VerifyBoth ==
  /\ fnPc = "called"
  /\ LET ssRet == Returns(fnArgs.ss)
         arxRet == Returns(fnArgs.arxiv)
         first == verifyCitationCached(fnArgs.c1, <<>>, minScore, ssRet,
                                       arxRet, debug)
         store == (cacheKey(fnArgs.c1) :> first)
     IN fnOut' = [first |-> first,
                  second |-> verifyCitationCached(fnArgs.c2, store, minScore,
                                                  ssRet, arxRet, debug),
                  fresh |-> verifyCitationResult(fnArgs.c2, minScore, ssRet,
                                                 arxRet, debug)]
  /\ fnPc' = "returned"
  /\ UNCHANGED fnArgs
  /\ UNCHANGED <<runVars, poolVars, logVars, retryVars, scoreVars, aborted,
                 extractVars>>

InitCache ==
  /\ HandlerIdle
  /\ ExtractIdle
  /\ fnPc = "called"
  /\ fnArgs \in [c1 : KeyCitations, c2 : KeyCitations, ss : KeyCandidates,
                  arxiv : {NoItem, Item(<<"a">>, << <<"y">> >>, "a1")}]
  /\ fnOut = <<>>

NextCache == VerifyBoth

SpecCache == InitCache /\ [][NextCache]_vars

(* --------------- one verifyCitation, request by request --------------- *)
(* fnOut holds where the call stands: the strategy at work (1 and 2 of   *)
(* semanticScholarLookup, 3 and 4 of arxivLookup), the round i of its     *)
(* retryFetch, and how many retryFetch calls and fetches were made.       *)

LookupCitations ==
  {Cite(<<"a">>, << <<"x">> >>), Cite(<<"a">>, <<>>), Cite(<<" ">>, <<>>),
   Cite(<<"?">>, << <<"x">> >>)}

\* strategy n is entered: it calls retryFetch, which sends its first request
startStrategy(at, n) ==
  [at EXCEPT !.stage = n, !.i = 0, !.calls = @ + 1]

\* the strategy to go on with when strategy n ended without a candidate;
\* 5 stands for the two lookups being over
afterStrategy(c, n) ==
  IF n = 1 THEN 2
  ELSE IF n = 2 THEN (IF Len(cleanTitle(c.title)) = 0 THEN 5 ELSE 3)
  ELSE IF n = 3 THEN (IF HasFirstAuthor(c.authors) THEN 4 ELSE 5)
  ELSE 5

\* the strategy to go on with when strategy n returned a candidate
afterCandidate(c, n) ==
  IF n <= 2 THEN (IF Len(cleanTitle(c.title)) = 0 THEN 5 ELSE 3) ELSE 5

tryOf(c, n, ans) ==
  IF n = 1 THEN ssMatchTry(ans)
  ELSE IF n = 2 THEN ssSearchTry(c.title, ans)
  ELSE IF n = 3 THEN arxivTitleTry(c.title, ans)
  ELSE arxivAuthorTry(ans)

goOn(at, n) ==
  IF n = 5 THEN fnPc' = "returned" /\ fnOut' = [at EXCEPT !.stage = 5]
  ELSE fnPc' = "fetch" /\ fnOut' = startStrategy(at, n)

\* sleep(100) is over and semanticScholarLookup is called
LookupSleepDone ==
  /\ fnPc = "sleep"
  /\ goOn(fnOut, IF Len(trim(fnArgs.c.title)) = 0
                 THEN afterStrategy(fnArgs.c, 2) ELSE 1)
  /\ UNCHANGED fnArgs
  /\ UNCHANGED <<runVars, poolVars, logVars, retryVars, scoreVars, aborted,
                 extractVars>>

\* fetchWithTimeout settles, with a response, a network error or the abort
\* of its timer
LookupFetchSettles ==
  /\ fnPc = "fetch"
  /\ \E o \in FetchOutcomes :
       LET step == retryStep(o, fnOut.i, RetryAttempts)
           at == [fnOut EXCEPT !.fetches = @ + 1]
       IN IF step = "sleep"
          THEN fnPc' = "backoff" /\ fnOut' = at
          ELSE IF step = "return" /\ ResOk(o.status)
          THEN fnPc' = "body" /\ fnOut' = at
          ELSE goOn(at, afterStrategy(fnArgs.c, fnOut.stage))
  /\ UNCHANGED fnArgs
  /\ UNCHANGED <<runVars, poolVars, logVars, retryVars, scoreVars, aborted,
                 extractVars>>

\* the backoff sleep of retryFetch is over
LookupBackoffDone ==
  /\ fnPc = "backoff"
  /\ fnPc' = "fetch"
  /\ fnOut' = [fnOut EXCEPT !.i = @ + 1]
  /\ UNCHANGED fnArgs
  /\ UNCHANGED <<runVars, poolVars, logVars, retryVars, scoreVars, aborted,
                 extractVars>>

\* res.json() or res.text() settles: the body of the 200 response has
\* arrived, or reading it failed
LookupBodyRead ==
  /\ fnPc = "body"
  /\ \E body \in RetryBodies :
       LET ans == Answer([threw |-> FALSE, status |-> 200], body.json,
                         body.data)
           try == tryOf(fnArgs.c, fnOut.stage, ans)
       IN IF ~try.threw /\ try.found
          THEN goOn(fnOut, afterCandidate(fnArgs.c, fnOut.stage))
          ELSE goOn(fnOut, afterStrategy(fnArgs.c, fnOut.stage))
  /\ UNCHANGED fnArgs
  /\ UNCHANGED <<runVars, poolVars, logVars, retryVars, scoreVars, aborted,
                 extractVars>>

InitLookups ==
  /\ HandlerIdle
  /\ ExtractIdle
  /\ fnPc = "sleep"
  /\ fnArgs \in [c : LookupCitations]
  /\ fnOut = [stage |-> 0, i |-> 0, calls |-> 0, fetches |-> 0]

NextLookups ==
  \/ LookupSleepDone
  \/ LookupFetchSettles
  \/ LookupBackoffDone
  \/ LookupBodyRead

\* The timers fire: sleep(100), the backoff sleeps, and the abort timer that
\* settles a pending fetch.  That timer is cleared once fetch has resolved
\* with the response, so nothing bounds the reading of a body.
SpecLookups ==
  /\ InitLookups
  /\ [][NextLookups]_vars
  /\ WF_vars(LookupSleepDone)
  /\ WF_vars(LookupFetchSettles)
  /\ WF_vars(LookupBackoffDone)

(* ---------------- the dashboard that calls the endpoint ---------------- *)
(* handleUpload of src/app/dashboard/page.tsx posts the file and reads    *)
(* the response as a stream of chunks "data: {...}" ended by an empty     *)
(* line.  result and error are TRUE when the state holds a value, and     *)
(* uploadMessage is "null" or the message shown.                          *)

\* the loop over the parts of the stream, from part k on
RECURSIVE readParts(_, _, _)
readParts(parts, k, st) ==
  IF k > Len(parts) THEN st
  ELSE LET payload == parts[k]
       IN readParts(parts, k + 1,
            IF payload.type = "progress"
              THEN [st EXCEPT !.uploadMessage = payload.message]
            ELSE IF payload.type = "result" THEN [st EXCEPT !.result = TRUE]
            ELSE IF payload.type = "error" THEN [st EXCEPT !.error = TRUE]
            ELSE st)

\* res is the response and evs the events its stream carried.  The body of
\* a response of route.ts is JSON text without an empty line: it stays in
\* the buffer and no part of it is ever handled.
handleUpload(res, evs) ==
  LET start == [isUploading |-> TRUE, result |-> FALSE, error |-> FALSE,
                uploadMessage |-> "null"]
      read == IF ~ResOk(res.status) THEN [start EXCEPT !.error = TRUE]
              ELSE IF res.kind = "stream" THEN readParts(evs, 1, start)
              ELSE start
  IN [read EXCEPT !.isUploading = FALSE, !.uploadMessage = "null"]

\* the run of the endpoint has ended and handleUpload has read all of its
\* response
HandleUpload ==
  /\ pc = "done"
  /\ fnPc = "idle"
  /\ response.sent
  /\ fnOut' = handleUpload(response, events)
  /\ fnPc' = "finished"
  /\ UNCHANGED fnArgs
  /\ UNCHANGED <<runVars, poolVars, logVars, retryVars, scoreVars, aborted,
                 extractVars>>

NextUpload ==
  \/ Auth
  \/ Form
  \/ Pdf
  \/ DeepSeekAttempt
  \/ InsertPaper
  \/ PoolStartThrows
  \/ PoolStart
  \/ \E k \in Workers : AfterSleep(k)
  \/ \E k \in Workers : SemanticScholarDone(k)
  \/ \E k \in Workers : ArxivDone(k)
  \/ \E k \in Workers : Resume(k)
  \/ PoolReturn
  \/ Aggregate
  \/ InsertChunk
  \/ UpdateAfterError
  \/ Update
  \/ HandleUpload

SpecUpload == Init /\ [][NextUpload]_vars

(* ------------------------------ properties ---------------------------- *)

Slots == DOMAIN results

\* the invocation of fn for index i looked the citation up itself
Fresh(i) == lookupLog[i].arxiv # "none"

\* the invocation of fn for index i was answered from the cache
CacheHit(i) == results[i].filled /\ lookupLog[i].ss = "none"

NoCandidates(r) == r.semantic_scholar.isNull /\ r.arxiv.isNull

\* C1: the element at position i of what mapWithConcurrency builds is the
\* value fn resolved to for items[i], whatever the order in which the
\* invocations complete, and it concerns the citation of items[i].
Thm_C1_ResultsInInputOrder ==
  /\ \A i \in Slots :
       results[i].filled =>
         /\ results[i] = returned[i]
         /\ cacheKey(results[i].ref) = cacheKey(items[i])
  /\ pc = "aggregate" =>
       /\ Len(verifications) = Len(items)
       /\ \A i \in 1..Len(items) :
            verifications[i].filled /\ verifications[i] = returned[i]

\* C1 witness: the pool has returned although the second citation's result
\* was assigned before the first one's.
Wit_C1_OutOfOrderCompletion ==
  /\ pc = "aggregate"
  /\ Len(items) = 2
  /\ Len(writes) = 2
  /\ writes[1].slot = 2
  /\ cacheKey(items[1]) # cacheKey(items[2])

\* C2: every index is drawn by at most one worker, fn is invoked at most
\* once for it and its slot is assigned at most once; when the pool returns
\* each of these has happened exactly once for every index in [0, n).
Thm_C2_EachIndexOnce ==
  /\ \A i \in Slots : calls[i] <= 1 /\ Cardinality(claimedBy[i]) <= 1
  /\ \A a, b \in DOMAIN writes : a # b => writes[a].slot # writes[b].slot
  /\ \A a \in DOMAIN writes : writes[a].worker \in claimedBy[writes[a].slot]
  /\ pc = "aggregate" =>
       /\ Len(writes) = Len(items)
       /\ \A i \in 1..Len(items) :
            /\ calls[i] = 1
            /\ Cardinality(claimedBy[i]) = 1
            /\ \E a \in DOMAIN writes : writes[a].slot = i
            /\ verifications[i].filled

\* C2 witness: two workers shared two citations and the pool has returned.
Wit_C2_TwoWorkersDone ==
  /\ pc = "aggregate"
  /\ Len(items) = 2
  /\ Cardinality(Workers) = 2
  /\ claimedBy[1] # claimedBy[2]

\* C3: of the citations that share a cache key, at most one has a lookup
\* sent to the services.
Cex_C3_OneLookupPerKey ==
  \A i, j \in DOMAIN looked :
    (i < j /\ cacheKey(items[i]) = cacheKey(items[j]))
      => ~(looked[i] > 0 /\ looked[j] > 0)

\* C4: a result, computed or taken from the cache, is verified exactly when
\* its score is at least the run's minScore, and unverified otherwise.
Thm_C4_StatusIffThreshold ==
  \A i \in Slots :
    results[i].filled =>
      /\ results[i].status \in {"verified", "unverified"}
      /\ results[i].status = "verified" <=> RGeq(results[i].score, minScore)

\* C4 witness: a result answered from the cache whose score equals a positive
\* minScore, and which is verified.
Wit_C4_CachedAtThreshold ==
  \E i \in Slots :
    /\ CacheHit(i)
    /\ results[i].score = minScore
    /\ RGt(minScore, Zero)
    /\ results[i].status = "verified"

Thm_C6_LookupsNeverThrow ==
  /\ \A k \in Workers : ~wss[k].threw
  /\ \A i \in DOMAIN lookupLog :
       /\ ~lookupLog[i].ssThrew
       /\ ~lookupLog[i].arxivThrew
       /\ Fresh(i) =>
            /\ returned[i].filled
            /\ lookupLog[i].ss = "nocand" => returned[i].semantic_scholar.isNull
            /\ lookupLog[i].arxiv = "nocand" => returned[i].arxiv.isNull
  /\ \A i \in Slots :
       results[i].filled =>
         /\ results[i].lookup_errors.attached <=> debug
         /\ ~results[i].lookup_errors.semanticScholar
         /\ ~results[i].lookup_errors.arXiv

\* C6 witness: with VERIFY_DEBUG set, a result for a citation for which
\* neither service offered a candidate, carrying lookup_errors.
Wit_C6_FailedLookupsInDebug ==
  /\ debug
  /\ \E i \in Slots :
       /\ results[i].filled
       /\ lookupLog[i].ss = "nocand"
       /\ lookupLog[i].arxiv = "nocand"
       /\ results[i].lookup_errors.attached
       /\ NoCandidates(results[i])

\* the sourceUrl that follows from the two candidates' scores and ids
UrlByScoresAndIds(r, log) ==
  IF RGeq(r.semantic_scholar.score, r.arxiv.score) /\ log.ssId # ""
  THEN [src |-> "semanticscholar", id |-> log.ssId]
  ELSE IF log.arxivId # "" THEN [src |-> "arxiv", id |-> log.arxivId]
       ELSE NoUrl

\* C7 as stated: a verified result's sourceUrl is Semantic Scholar's when
\* its score is at least arXiv's, and arXiv's otherwise.
Cex_C7_UrlByScoreAlone ==
  \A i \in Slots :
    (results[i].filled /\ results[i].status = "verified") =>
      IF RGeq(results[i].semantic_scholar.score, results[i].arxiv.score)
      THEN results[i].sourceUrl.src = "semanticscholar"
      ELSE results[i].sourceUrl.src = "arxiv"

\* C7 amended: a verified result's sourceUrl is Semantic Scholar's URL when
\* its score is at least arXiv's (ties included) and its candidate has a
\* paperId; otherwise arXiv's URL when arXiv's candidate has an id; otherwise
\* null.
Thm_C7_UrlByScoreAndId ==
  \A i \in Slots :
    (results[i].filled /\ results[i].status = "verified") =>
      \E f \in DOMAIN lookupLog :
        /\ Fresh(f)
        /\ results[i] = returned[f]
        /\ cacheKey(items[f]) = cacheKey(items[i])
        /\ results[i].sourceUrl = UrlByScoresAndIds(returned[f], lookupLog[f])

\* C7 witness: a verified result whose Semantic Scholar candidate scores at
\* least as high as arXiv's but has no paperId, so that arXiv's URL is used.
Wit_C7_FallbackToArxiv ==
  \E i \in Slots :
    /\ results[i].filled
    /\ Fresh(i)
    /\ results[i].status = "verified"
    /\ ~results[i].semantic_scholar.isNull
    /\ RGeq(results[i].semantic_scholar.score, results[i].arxiv.score)
    /\ lookupLog[i].ssId = ""
    /\ results[i].sourceUrl.src = "arxiv"

\* C8: an unverified result has no sourceUrl.
Thm_C8_UnverifiedHasNoUrl ==
  /\ \A i \in Slots :
       (results[i].filled /\ results[i].status = "unverified")
         => results[i].sourceUrl = NoUrl
  /\ \A i \in DOMAIN verifications :
       verifications[i].status = "unverified"
         => verifications[i].sourceUrl = NoUrl

\* C8 witness: an unverified result although Semantic Scholar returned a
\* candidate with a paperId.
Wit_C8_CandidateBelowThreshold ==
  \E i \in Slots :
    /\ results[i].filled
    /\ results[i].status = "unverified"
    /\ ~results[i].semantic_scholar.isNull
    /\ lookupLog[i].ssId # ""
    /\ RGt(results[i].score, Zero)

\* what the caller has received: the events of the stream, or the one JSON
\* response of route.ts
Emitted ==
  IF variant = "stream" THEN events
  ELSE IF response.sent THEN <<Event(response.kind, response.message)>>
       ELSE <<>>

IsTerminal(ev) == ev.type \in {"result", "error"}

Thm_C10_InputErrorsEndTheRun ==
  /\ section = "blank" =>
       /\ pc = "done"
       /\ Emitted[Len(Emitted)] =
            Event("error", "Could not find references section in the PDF")
       /\ variant = "json" => response.status = 400
       /\ dsLog = <<>>
  /\ (schema = "parsed" /\ items = <<>>) =>
       /\ pc = "done"
       /\ Emitted[Len(Emitted)] =
            Event("error", "Could not extract citations from the PDF")
       /\ variant = "json" => response.status = 400
       /\ \A a \in DOMAIN dsLog : dsLog[a].ok <=> a = Len(dsLog)
  /\ (section = "blank" \/ (schema = "parsed" /\ items = <<>>)) =>
       /\ ~paper.stored
       /\ rows = <<>>
       /\ calls = <<>>
       /\ looked = <<>>
       /\ ~report.sent

\* C10 witness: a run ended because DeepSeek, after a failed attempt,
\* returned an object without citations.
Wit_C10_ZeroCitations ==
  /\ pc = "done"
  /\ schema = "parsed"
  /\ items = <<>>
  /\ Len(dsLog) > 1

\* the last attempt callDeepSeekJSON has made
LastAttempt == dsLog[Len(dsLog)]

\* C11: when the object DeepSeek returned lists a citation whose title is
\* missing or empty, that entry alone is dropped and the other entries are
\* kept for verification; an entry without an authors field gets
\* authors = [].
Cex_C11_BadEntryAloneDropped ==
  (dsLog # <<>> /\ LastAttempt.ok /\ LastAttempt.raw.wellTyped) =>
     LET kept == SelectSeq(LastAttempt.raw.citations,
                           LAMBDA e : e.hasTitle /\ Len(e.title) >= 1)
     IN /\ schema = "parsed"
        /\ items = [i \in DOMAIN kept |->
                      Cite(kept[i].title,
                           IF kept[i].hasAuthors THEN kept[i].authors
                           ELSE <<>>)]

\* C12: an attempt of callDeepSeekJSON that met a 4xx response other than
\* 429 is not followed by a backoff wait or by another attempt: it is the
\* last attempt and the run has ended.
Cex_C12_NoRetryOn4xx ==
  \A a \in DOMAIN dsLog :
    (dsLog[a].status >= 400 /\ dsLog[a].status <= 499 /\ dsLog[a].status # 429)
      => /\ dsLog[a].wait = 0
         /\ a = Len(dsLog)
         /\ pc = "done"

\* C13: callDeepSeekJSON makes at most 3 attempts; after a failed attempt
\* that is not the third it waits min(1000 * 2^attempt, 5000) ms and then
\* tries again, and it waits after no other attempt; when the third attempt
\* has failed the run has ended with one error response (500 in the json
\* variant), no paper was stored and no lookup was issued.
Thm_C13_BoundedExtractionAttempts ==
  /\ Len(dsLog) <= 3
  /\ \A a \in DOMAIN dsLog :
       /\ dsLog[a].wait = IF ~dsLog[a].ok /\ a < 3
                          THEN (IF 1000 * 2^(a - 1) <= 5000
                                THEN 1000 * 2^(a - 1) ELSE 5000)
                          ELSE 0
       /\ dsLog[a].wait > 0 => (a < Len(dsLog) \/ pc = "deepseek")
       /\ a < Len(dsLog) => ~dsLog[a].ok
  /\ (Len(dsLog) = 3 /\ ~LastAttempt.ok) =>
       /\ pc = "done"
       /\ Emitted # <<>>
       /\ Emitted[Len(Emitted)] = Event("error", "DeepSeek attempt failed")
       /\ \A e \in 1..(Len(Emitted) - 1) : ~IsTerminal(Emitted[e])
       /\ variant = "json" => response.status = 500
       /\ ~paper.stored
       /\ rows = <<>>
       /\ calls = <<>>
       /\ looked = <<>>
       /\ ~report.sent

\* C13 witness: three attempts failed, two waits of 1000 and 2000 ms were
\* made, and the streamed run has ended.
Wit_C13_ThreeFailedAttempts ==
  /\ Len(dsLog) = 3
  /\ ~LastAttempt.ok
  /\ dsLog[1].wait = 1000
  /\ dsLog[2].wait = 2000
  /\ dsLog[1].status = 503
  /\ dsLog[3].status = 0
  /\ variant = "stream"
  /\ pc = "done"

\* the outcome of a fetch is one retryFetch answers with another attempt
IsFailure(o) == o.kind # "response" \/ IsRetryStatus(o.status)

\* the retryFetch call that settled last
LastCall == rfDone[Len(rfDone)]

\* C14: a retryFetch call whose responses are 503, 503 and then 200 has
\* made exactly 3 fetches and 2 backoff waits and returned the 200
\* response; in general a call that returned an ok response after k
\* failures (5xx, 429, network error or timeout; k < 5) has made k + 1
\* fetches and exactly k waits, one after each failure, and a failure ends
\* a call only at the fifth fetch.
Thm_C14_WaitsEqualFailures ==
  /\ (/\ Len(rfLog) >= 3
      /\ rfLog[1].outcome = Resp(503)
      /\ rfLog[2].outcome = Resp(503)
      /\ rfLog[3].outcome = Resp(200)) =>
        /\ Len(rfLog) = 3
        /\ rfPc = "returned"
        /\ WaitsOf(rfLog) = <<1000, 2000>>
        /\ LastCall.fetches = 3
        /\ LastCall.waits = <<1000, 2000>>
        /\ LastCall.ans.res = [threw |-> FALSE, status |-> 200]
  /\ \A j \in DOMAIN rfLog :
       /\ rfLog[j].wait > 0 <=> ~(j = Len(rfLog) /\ rfPc = "returned")
       /\ rfLog[j].wait > 0 => IsFailure(rfLog[j].outcome)
       /\ (rfLog[j].wait = 0 /\ IsFailure(rfLog[j].outcome)) => j = 5
  /\ \A n \in DOMAIN rfDone :
       (~rfDone[n].ans.res.threw /\ ResOk(rfDone[n].ans.res.status)) =>
          /\ rfDone[n].fetches <= 5
          /\ Len(rfDone[n].waits) = rfDone[n].fetches - 1
  /\ (rfPc = "returned" /\ ResOk(rfLog[Len(rfLog)].outcome.status)) =>
       /\ LastCall.fetches = Len(rfLog)
       /\ LastCall.waits = WaitsOf(rfLog)
       /\ Len(LastCall.waits) = Len(rfLog) - 1

\* C14 witness: strategy 1 met 503, 503 and 200 with a candidate, and the
\* lookup returned that candidate.
Wit_C14_TwoFailuresThenOk ==
  /\ rfPc = "returned"
  /\ Len(rfDone) = 1
  /\ Len(rfLog) = 3
  /\ rfLog[1].outcome = Resp(503)
  /\ rfLog[2].outcome = Resp(503)
  /\ rfLog[3].outcome = Resp(200)
  /\ ~rfRet.value.isNull

\* C15: a 404 response is not retried: no backoff wait follows it, the
\* retryFetch call returns it at once (a call whose first response is 404
\* has made 1 fetch and 0 waits), the strategy takes it as "no candidate"
\* without an error, and a lookup whose calls all met 404 returns null.
Thm_C15_NotFoundIsNotRetried ==
  /\ \A j \in DOMAIN rfLog :
       rfLog[j].outcome = Resp(404) =>
          /\ rfLog[j].wait = 0
          /\ j = Len(rfLog)
          /\ rfPc = "returned"
          /\ LastCall.fetches = j
          /\ LastCall.waits = WaitsOf(rfLog)
          /\ Len(LastCall.waits) = j - 1
  /\ \A n \in DOMAIN rfDone :
       rfDone[n].ans.res.status = 404 =>
          /\ ~rfDone[n].ans.res.threw
          /\ Len(rfDone[n].waits) = rfDone[n].fetches - 1
          /\ ~HasCandidate(rfDone[n].ans)
  /\ (rfPc = "returned" /\ \A n \in DOMAIN rfDone :
                             rfDone[n].ans.res.status = 404) =>
       /\ Len(rfDone) = 2
       /\ rfRet = Returns(NoItem)

\* C15 witness: both endpoints answered 404 at the first fetch and the
\* lookup returned null after 2 fetches and no wait.
Wit_C15_NotFoundTwice ==
  /\ rfPc = "returned"
  /\ Len(rfDone) = 2
  /\ \A n \in DOMAIN rfDone :
       /\ rfDone[n].ans.res = [threw |-> FALSE, status |-> 404]
       /\ rfDone[n].fetches = 1
       /\ rfDone[n].waits = <<>>
  /\ rfRet = Returns(NoItem)

\* C16: a retryFetch call makes at most 5 fetches and at most 4 backoff
\* waits; the wait after the fetch of attempt i is min(1000 * 2^i, 10000)
\* ms and none follows the fifth fetch; a call whose attempts all failed
\* leaves its strategy without a candidate, and the lookup returns (null
\* when both calls failed) instead of throwing.
Thm_C16_BoundedFetchesAndWaits ==
  /\ Len(rfLog) <= 5
  /\ rfPc \in {"fetch", "sleep"} => Len(rfLog) <= 4
  /\ \A j \in DOMAIN rfLog :
       /\ rfLog[j].wait \in {0, IF 1000 * 2^(j - 1) <= 10000
                                THEN 1000 * 2^(j - 1) ELSE 10000}
       /\ j = 5 => rfLog[j].wait = 0
  /\ \A n \in DOMAIN rfDone :
       /\ rfDone[n].ans.res \in RetryResults
       /\ rfDone[n].fetches \in 1..5
       /\ Len(rfDone[n].waits) <= 4
       /\ Len(rfDone[n].waits) = rfDone[n].fetches - 1
       /\ \A j \in DOMAIN rfDone[n].waits :
            rfDone[n].waits[j] = IF 1000 * 2^(j - 1) <= 10000
                                 THEN 1000 * 2^(j - 1) ELSE 10000
       /\ (rfDone[n].ans.res.threw \/ IsRetryStatus(rfDone[n].ans.res.status)) =>
            /\ rfDone[n].fetches = 5
            /\ ~HasCandidate(rfDone[n].ans)
  /\ ~rfRet.threw
  /\ (rfPc = "returned" /\ \A n \in DOMAIN rfDone :
                             rfDone[n].ans.res.threw
                             \/ IsRetryStatus(rfDone[n].ans.res.status)) =>
       /\ Len(rfDone) = 2
       /\ rfRet = Returns(NoItem)

\* C16 witness: strategy 1 gave up after five fetches that threw, strategy
\* 2 returned the 503 of its fifth fetch, and the lookup returned null.
Wit_C16_BothCallsExhausted ==
  /\ rfPc = "returned"
  /\ Len(rfDone) = 2
  /\ rfDone[1].ans.res.threw
  /\ rfDone[1].fetches = 5
  /\ rfDone[1].waits = <<1000, 2000, 4000, 8000>>
  /\ rfDone[2].ans.res = [threw |-> FALSE, status |-> 503]
  /\ rfDone[2].fetches = 5
  /\ rfRet = Returns(NoItem)

\* C17 as stated: a supplied min_score outside [0,1] is clamped into [0,1]
\* and the run proceeds with the clamped value.
Cex_C17_OutOfRangeClamped ==
  (minScoreRaw.isString /\ minScoreRaw.number.finite) =>
     LET v == minScoreRaw.number.value
     IN /\ RGt(v, One) => minScore = One
        /\ RGt(Zero, v) => minScore = Zero
        /\ (RGt(v, One) \/ RGt(Zero, v)) =>
             ~(pc = "done" /\ Emitted # <<>>
               /\ Emitted[Len(Emitted)].type = "error")

\* C17, amended: the minScore of a run lies in [0,1] at all times; a
\* min_score field that is not a finite number in [0,1] ends the run with
\* the error "min_score must be between 0 and 1" (or with the error about
\* the file, which is tested first; status 400 in the json variant) before
\* anything is extracted, stored or looked up; a field in
\* [0,1] is used as it is, and 0.5 is used when the field is absent.
Thm_C17_MinScoreValidatedNotClamped ==
  /\ RGeq(minScore, Zero) /\ RGeq(One, minScore)
  /\ (minScoreRaw.isString
      /\ (~minScoreRaw.number.finite
          \/ RGt(minScoreRaw.number.value, One)
          \/ RGt(Zero, minScoreRaw.number.value))) =>
       /\ pc = "done"
       /\ Emitted # <<>>
       /\ Emitted[Len(Emitted)].type = "error"
       /\ Emitted[Len(Emitted)].message \in
            {"min_score must be between 0 and 1",
             "Please upload a valid PDF file"}
       /\ variant = "json" => response.status = 400
       /\ section = "unset"
       /\ dsLog = <<>>
       /\ ~paper.stored
       /\ calls = <<>>
       /\ looked = <<>>
  /\ (pc \notin {"auth", "form"} /\ section # "unset") =>
       minScore = IF minScoreRaw.isString THEN minScoreRaw.number.value
                  ELSE [n |-> 1, d |-> 2]
  /\ \A i \in Slots :
       (results[i].filled /\ pc \notin {"auth", "form"}) =>
          (results[i].status = "verified" <=> RGeq(results[i].score, minScore))

\* C17 witness: min_score = 3/2 was supplied with a valid file and the run
\* ended with the error about min_score.
Wit_C17_OutOfRangeRejected ==
  /\ minScoreRaw = Field(Num(Frac(3, 2)))
  /\ pc = "done"
  /\ Emitted # <<>>
  /\ Emitted[Len(Emitted)] = Event("error", "min_score must be between 0 and 1")

\* a number of the model lies in [0,1]
InUnit(q) == q.n >= 0 /\ q.d > 0 /\ q.n <= q.d

\* C18: for every citation and every pair of candidates, the matched
\* length lcsSum counts never exceeds the length of the shorter string, so
\* sequenceMatcherRatio lies in [0,1]; the author overlap lies in [0,1];
\* each candidate's score lies in [0,1]; and the score of the result is the
\* greater of the two and lies in [0,1].
Thm_C18_ScoresInUnitInterval ==
  /\ \A cand \in {scArgs.ss, scArgs.arxiv} :
       LET a == normalize(scArgs.c.title)
           b == IF cand.title = NoTitle THEN <<>> ELSE normalize(cand.title)
           matches == lcsSum(a, b)
       IN /\ matches <= Len(a)
          /\ matches <= Len(b)
          /\ InUnit(sequenceMatcherRatio(a, b))
          /\ InUnit(authorScore(scArgs.c.authors, cand.authors))
          /\ InUnit(scoreMatchFields(scArgs.c.title, scArgs.c.authors,
                                     cand.title, cand.authors))
  /\ scPc = "scored" =>
       /\ InUnit(scOut.score)
       /\ InUnit(scOut.semantic_scholar.score)
       /\ InUnit(scOut.arxiv.score)
       /\ RGeq(scOut.score, scOut.semantic_scholar.score)
       /\ RGeq(scOut.score, scOut.arxiv.score)
       /\ scOut.score \in {scOut.semantic_scholar.score, scOut.arxiv.score}
  /\ \A i \in Slots : InUnit(results[i].score)

\* C18 witness: a citation scored 1 against a candidate with its title and
\* authors and less than 1, but more than 0, against the other candidate.
Wit_C18_FullAndPartialScore ==
  /\ scPc = "scored"
  /\ scOut.score = One
  /\ scOut.semantic_scholar.score = One
  /\ RGt(scOut.arxiv.score, Zero)
  /\ RGt(One, scOut.arxiv.score)
  /\ Len(scArgs.c.title) = 3

\* C19: when both workers have resolved citations with one cache key,
\* the values they computed (score, status, sourceUrl) are equal, so all
\* citations sharing a key have the same verdict in the results.
Cex_C19_SameKeySameVerdict ==
  \A i, j \in Slots :
    (results[i].filled /\ results[j].filled
     /\ cacheKey(items[i]) = cacheKey(items[j])) =>
       /\ results[i].score = results[j].score
       /\ results[i].status = results[j].status
       /\ results[i].sourceUrl = results[j].sourceUrl

\* C20: for every value of VERIFY_LOOKUP_CONCURRENCY the effective worker
\* count is an integer between 1 and the cap (5 in route.ts, 20 in the
\* streaming POST), and at every moment at most min(W, number of
\* citations) citations are being verified.
Cex_C20_WorkerCountIntegerInCap ==
  /\ IsInteger(concurrency)
  /\ concurrency.n >= 1
  /\ concurrency.n <= (IF variant = "stream" THEN StreamConcurrencyCap
                       ELSE ConcurrencyCap)
  /\ Cardinality({k \in Workers : wpc[k] # "finished"})
       <= Min(concurrency.n, Len(items))

Cex_C23_NothingStartsAfterAbort ==
  [][aborted => (nextIndex' = nextIndex /\ looked' = looked)]_vars

\* the positions of a list whose normalized title occurs at no earlier
\* position
FirstOfTitle(list) ==
  {q \in DOMAIN list :
     \A r \in 1..(q - 1) : normalize(list[r].title) # normalize(list[q].title)}

\* the entries of a list at the positions of a set, in the list's order
RECURSIVE EntriesAt(_, _, _)
EntriesAt(list, at, q) ==
  IF q > Len(list) THEN <<>>
  ELSE (IF q \in at THEN <<list[q]>> ELSE <<>>) \o EntriesAt(list, at, q + 1)

LinesOf(n) == [k \in 1..n |-> k]

\* the chunks put together again, chunk c without its first drops[c] lines
RECURSIVE Reassemble(_, _, _)
Reassemble(chunks, drops, c) ==
  IF c > Len(chunks) THEN <<>>
  ELSE SubSeq(chunks[c], drops[c] + 1, Len(chunks[c]))
       \o Reassemble(chunks, drops, c + 1)

InsertFailureReported ==
  /\ pc = "done"
  /\ Len(Emitted) > 0
  /\ Emitted[Len(Emitted)] =
       Event("error", "Saved paper, but failed to save citations")

Cex_C27_RatioSymmetric ==
  fnPc = "returned" => fnOut.ab = fnOut.ba

\* C28: sequenceMatcherRatio(a, a) = 1 for every non-empty a, the ratio of
\* the empty string with itself is 1, and the ratio of the empty string
\* with a non-empty one is 0 in either order.
Thm_C28_RatioOfEqualAndOfEmpty ==
  fnPc = "returned" =>
     /\ Len(fnArgs.a) > 0 => fnOut.aa = One
     /\ Len(fnArgs.b) > 0 => fnOut.bb = One
     /\ Len(fnArgs.a) = 0 => fnOut.aa = One
     /\ (Len(fnArgs.a) = 0 /\ Len(fnArgs.b) = 0) => fnOut.ab = One
     /\ (Len(fnArgs.a) = 0 /\ Len(fnArgs.b) > 0) =>
          (fnOut.ab = Zero /\ fnOut.ba = Zero)
     /\ (Len(fnArgs.a) > 0 /\ Len(fnArgs.b) = 0) =>
          (fnOut.ab = Zero /\ fnOut.ba = Zero)
     /\ fnArgs.a = fnArgs.b => fnOut.ab = One

\* C28 witness: the ratio was computed for the empty string and a string
\* of three characters, giving 0 both ways and 1 for each with itself.
Wit_C28_EmptyAgainstThree ==
  /\ fnPc = "returned"
  /\ fnArgs.a = <<>>
  /\ Len(fnArgs.b) = 3
  /\ fnOut.ab = Zero /\ fnOut.ba = Zero
  /\ fnOut.aa = One /\ fnOut.bb = One

\* C29: normalize is idempotent: normalize(normalize(x)) = normalize(x)
\* for every string x of upper- and lower-case letters, digits,
\* underscores, punctuation and whitespace.
Thm_C29_NormalizeIdempotent ==
  fnPc = "returned" => fnOut.twice = fnOut.once

\* C29 witness: a string of an upper-case letter, a punctuation mark, a
\* tab and an underscore was normalized to "a _", and again to the same.
Wit_C29_MixedStringNormalized ==
  /\ fnPc = "returned"
  /\ fnArgs.x = <<"A", "?", "\t", "_">>
  /\ fnOut.once = <<"a", " ", "_">>
  /\ fnOut.twice = <<"a", " ", "_">>

\* Semantic Scholar's candidate carries the title of the citation as cited
ExactTitleFromSS ==
  /\ scPc = "scored"
  /\ minScore = Half
  /\ ~scArgs.ss.isNull
  /\ Len(scArgs.c.title) > 0
  /\ scArgs.ss.title = scArgs.c.title

RefIn == fnArgs.lines
RefOut == fnOut.lines

\* a blank line is collected as the empty line
AsCollected(line) == IF Len(trim(line)) = 0 THEN <<>> ELSE line

\* C31: without a heading line the text comes back unchanged; with one,
\* the result is made of the lines after the first heading, in order, up to
\* but excluding the first line at which collecting stops (a blank line
\* being collected as an empty line).
Thm_C31_SectionAfterFirstHeading ==
  fnPc = "returned" =>
     LET heads == {i \in DOMAIN RefIn : HEADING_RE(trim(RefIn[i]))}
     IN /\ heads = {} => (fnOut.whole /\ RefOut = RefIn)
        /\ heads # {} =>
             LET h == CHOOSE i \in heads : \A j \in heads : i <= j
                 n == Len(RefOut)
             IN /\ ~fnOut.whole
                /\ h + n <= Len(RefIn)
                /\ \A k \in 1..n : RefOut[k] = AsCollected(RefIn[h + k])
                /\ \A k \in 1..n : ~stopsAt(RefIn[h + k])
                /\ h + n < Len(RefIn) => stopsAt(RefIn[h + n + 1])

\* C31 witness: a text of three lines whose second line is the heading and
\* whose third line was returned as the section; the first line, before
\* the heading, is left out.
Wit_C31_LineBeforeHeadingLeftOut ==
  /\ fnPc = "returned"
  /\ Len(RefIn) = 3
  /\ ~HEADING_RE(trim(RefIn[1])) /\ Len(trim(RefIn[1])) > 0
  /\ HEADING_RE(trim(RefIn[2]))
  /\ ~fnOut.whole
  /\ RefOut = <<RefIn[3]>>
  /\ Len(RefIn[3]) > 0

\* the position of the first heading of the text called with
FirstHeading ==
  CHOOSE i \in DOMAIN RefIn :
    /\ HEADING_RE(trim(RefIn[i]))
    /\ \A j \in 1..(i - 1) : ~HEADING_RE(trim(RefIn[j]))

\* a stop line in the words of C32, "entirely uppercase" read as: it has a
\* letter and every letter of it is an upper-case one
StopLineAsStated(line) ==
  LET str == trim(line)
  IN \/ LowerAll(str) \in STOP_HEADINGS
     \/ STOP_LINE_RE(str)
     \/ /\ Len(str) <= ShortHeadingLen
        /\ \E k \in DOMAIN str : str[k] \in Upper
        /\ \A k \in DOMAIN str : str[k] \notin Lower
        /\ ~YEAR_RE(str)

\* a stop line as amended: the third case asks for no lower-case letter
StopLineAmended(line) ==
  LET str == trim(line)
  IN \/ LowerAll(str) \in STOP_HEADINGS
     \/ STOP_LINE_RE(str)
     \/ /\ Len(str) >= 1
        /\ Len(str) <= ShortHeadingLen
        /\ \A k \in DOMAIN str : str[k] \notin Lower
        /\ ~YEAR_RE(str)

RECURSIVE closeOf(_, _, _)
closeOf(s, i, depth) ==
  IF i > Len(s) THEN 0
  ELSE IF s[i] \in {"{", "["} THEN closeOf(s, i + 1, depth + 1)
  ELSE IF s[i] \in {"}", "]"}
    THEN (IF depth = 1 THEN i ELSE closeOf(s, i + 1, depth - 1))
  ELSE closeOf(s, i + 1, depth)

\* the block that starts at the first opening character, up to the character
\* that closes it
FirstBalancedBlock(s) ==
  LET os == {i \in DOMAIN s : s[i] \in {"{", "["}}
      first == CHOOSE o \in os : \A x \in os : o <= x IN
  IF os = {} \/ closeOf(s, first, 0) = 0 THEN NoBlock
  ELSE [found |-> TRUE, text |-> SubSeq(s, first, closeOf(s, first, 0))]

Cex_C33_FirstSuccessfulStrategyWins ==
  fnPc = "returned" /\ "text" \in DOMAIN fnArgs =>
    LET direct == tryParse(trim(fnArgs.text))
        block == FirstBalancedBlock(candidateOf(fnArgs.text)) IN
    /\ direct.ok => (~fnOut.threw /\ fnOut.value = direct.val)
    /\ fnOut.threw => ~(block.found /\ tryParse(sanitize(block.text)).ok)

\* the names of a list of authors: the normalized names that are not empty
NamesOf(authors) ==
  {normalize(authors[k]) : k \in DOMAIN authors} \ {<<>>}

\* |cited names /\ found names| / |cited names|, 0 when a list is empty or
\* no cited name is left
AuthorOverlap(cited, found) ==
  IF Len(cited) = 0 \/ Len(found) = 0 \/ NamesOf(cited) = {} THEN Zero
  ELSE Frac(Cardinality(NamesOf(cited) \cap NamesOf(found)),
            Cardinality(NamesOf(cited)))

TitleSimilarity(cited, found) ==
  IF Truthy(cited) /\ Truthy(found)
  THEN sequenceMatcherRatio(normalize(cited), normalize(found))
  ELSE Zero

\* the score of one source for the citation scored: 0 without a candidate
SourceScore(cand) ==
  IF cand.isNull THEN Zero
  ELSE RAdd(RMul(TitleSimilarity(scArgs.c.title, cand.title), Frac(4, 5)),
            RMul(AuthorOverlap(scArgs.c.authors, cand.authors), Frac(1, 5)))

\* C34: the score of a source is titleSimilarity * 0.8 + authorOverlap * 0.2,
\* authorOverlap being the share of the citation's normalized author names
\* found among the candidate's and 0 when either list is empty; a source
\* without a candidate scores 0 and the score of the citation is the larger
\* of the two.
Thm_C34_WeightedScoreAndMax ==
  scPc = "scored" =>
    LET ss == extractSemanticScholarFields(scArgs.ss)
        a == SourceScore([isNull |-> scArgs.ss.isNull, title |-> ss.title,
                          authors |-> ss.authors])
        b == SourceScore(scArgs.arxiv)
    IN /\ ~scArgs.ss.isNull => scOut.semantic_scholar.score = a
       /\ ~scArgs.arxiv.isNull => scOut.arxiv.score = b
       /\ scOut.score \in {a, b}
       /\ RGeq(scOut.score, a)
       /\ RGeq(scOut.score, b)

\* C34 witness: two cited names of which Semantic Scholar's candidate has
\* one, arXiv's candidate scored higher, and the citation got arXiv's score.
Wit_C34_HalfOverlapAndLargerScore ==
  /\ scPc = "scored"
  /\ ~scArgs.ss.isNull
  /\ ~scArgs.arxiv.isNull
  /\ AuthorOverlap(scArgs.c.authors, scArgs.ss.authors) = Half
  /\ RGt(scOut.arxiv.score, scOut.semantic_scholar.score)
  /\ scOut.score = scOut.arxiv.score

\* C35: the result at position i carries citation i itself, its own title
\* and authors as extracted, also when it was taken from the cache.
Cex_C35_ResultCarriesOwnCitation ==
  \A i \in Slots : results[i].filled => results[i].ref = items[i]

NormalizedAuthors(c) == [k \in DOMAIN c.authors |-> normalize(c.authors[k])]

\* C36: a result taken from the cache has the score and the status that
\* resolving the citation afresh against the same answers gives, and two
\* citations share a cache key only if their normalized titles are equal and
\* their lists of normalized authors are equal.
Cex_C36_CacheHitAsFresh ==
  (fnPc = "returned" /\ "c1" \in DOMAIN fnArgs
   /\ cacheKey(fnArgs.c1) = cacheKey(fnArgs.c2)) =>
    /\ fnOut.second.score = fnOut.fresh.score
    /\ fnOut.second.status = fnOut.fresh.status
    /\ normalize(fnArgs.c1.title) = normalize(fnArgs.c2.title)
    /\ NormalizedAuthors(fnArgs.c1) = NormalizedAuthors(fnArgs.c2)

\* at most 4 retryFetch calls and 20 fetches in one verifyCitation
RetryBudgetKept ==
  "calls" \in DOMAIN fnOut => fnOut.calls <= 4 /\ fnOut.fetches <= 20

\* C37: verifyCitation terminates for every citation and every behaviour of
\* the services, after at most 4 retryFetch calls and at most 20 fetches.
Cex_C37_VerifyCitationTerminates ==
  []RetryBudgetKept /\ <>(fnPc = "returned")

\* C38: the status of a stored paper only moves from processing to completed
\* or from processing to failed, and when the run has ended it is no longer
\* processing.
Cex_C38_PaperLeavesProcessing ==
  /\ [][paper.stored =>
          \/ paper'.status = paper.status
          \/ /\ paper.status = "processing"
             /\ paper'.status \in {"completed", "failed"}]_vars
  /\ []((pc = "done" /\ paper.stored) => paper.status # "processing")

\* C39: whenever the paper is stored as completed, a row is stored for every
\* verification result: the number of rows is the paper's total_citations
\* and the number of rows with status verified its verified_citations.
Cex_C39_CompletedPaperHasAllRows ==
  (paper.stored /\ paper.status = "completed") =>
    /\ Len(rows) = Len(verifications)
    /\ Len(rows) = paper.total
    /\ Cardinality({i \in DOMAIN rows :
                      rows[i].verification_status = "verified"})
         = paper.verified

\* C40: when handleUpload has finished, isUploading is false, uploadMessage
\* is null and exactly one of result and error is set.
Cex_C40_ResultOrErrorAfterUpload ==
  fnPc = "finished" =>
    /\ ~fnOut.isUploading
    /\ fnOut.uploadMessage = "null"
    /\ fnOut.result # fnOut.error

=============================================================================
